---- MODULE Spec2Model ----
(***************************************************************************)
(* Cluster statistics aggregation of the gateway (cluster/gateway/stat.go).*)
(*                                                                         *)
(* Spec     the two-hop protocol: issueStat at the API node, handleStat at *)
(*          the entry node, handleStatRelay at the peers.                  *)
(* SpecAgg  aggregateStatResponses and the numeric reducers applied to     *)
(*          bounded lists of partial responses.                            *)
(***************************************************************************)
EXTENDS Integers, Sequences, FiniteSets, TLC

(***************************************************************************)
(* Bounds of the model.                                                    *)
(*   IntBits    width of int64 / uint64, scaled down (TLC integers are 32  *)
(*              bits wide, so 64 cannot be kept); every wrap is % 2^IntBits*)
(*   MantBits   significand width of float64, scaled down with it          *)
(*   MaxResps   longest list of partial responses handed to the combiner   *)
(*              in SpecAgg                                                 *)
(***************************************************************************)
IntBits == 5

MantBits == 3

MaxResps == 3

\* how many times the response of one peer is delivered at most
MaxDeliveries == 2

---------------------------------------------------------------------------
(* Integer helpers. *)

Pow2(n) == 2 ^ n

Abs(x) == IF x < 0 THEN -x ELSE x

RECURSIVE BitLen(_)
BitLen(n) == IF n = 0 THEN 0 ELSE 1 + BitLen(n \div 2)

MaxUint64 == Pow2(IntBits) - 1

MaxInt64 == Pow2(IntBits - 1) - 1

MinInt64 == -Pow2(IntBits - 1)

\* uint64 arithmetic wraps modulo 2^IntBits
WrapU(x) == x % Pow2(IntBits)

\* int64 arithmetic wraps in two's complement
WrapI(x) == ((x + Pow2(IntBits - 1)) % Pow2(IntBits)) - Pow2(IntBits - 1)

---------------------------------------------------------------------------
(***************************************************************************)
(* JSON scalars.  A number is kept in half units: h stands for h/2, so 3   *)
(* is h = 6 and 1.5 is h = 3.  A JSON text holds its number exactly.       *)
(***************************************************************************)
Num(h) == [t |-> "num", h |-> h]

Str == [t |-> "str", h |-> 0]

Null == [t |-> "null", h |-> 0]

\* the JSON integer n
IntNum(n) == Num(2 * n)

(***************************************************************************)
(* encoding/json decodes a JSON number into an interface{} as a float64:   *)
(* the number is rounded to MantBits significant bits, ties to even.       *)
(***************************************************************************)
FRound(h) ==
    LET a == Abs(h)
        e == BitLen(a) - MantBits
    IN  IF e <= 0 THEN h
        ELSE LET q    == a \div Pow2(e)
                 r    == a % Pow2(e)
                 half == Pow2(e - 1)
                 up   == (r > half) \/ (r = half /\ q % 2 = 1)
                 m    == (IF up THEN q + 1 ELSE q) * Pow2(e)
             IN  IF h < 0 THEN -m ELSE m

\* json.Unmarshal of a scalar text into an interface{}
DecodeAny(s) == IF s.t = "num" THEN Num(FRound(s.h)) ELSE s

---------------------------------------------------------------------------
(***************************************************************************)
(* json.Unmarshal(value, &v) of a scalar text into a typed variable.  The  *)
(* text null leaves v at its zero value and reports no error; a string or  *)
(* malformed text is an error; an integer variable takes only an integer   *)
(* literal inside the type's range.                                        *)
(***************************************************************************)
NilBytes == [t |-> "nil", h |-> 0]

BadText == [t |-> "bad", h |-> 0]

UnmarshalFloat64(s) ==
    CASE s.t = "num"  -> [ok |-> TRUE, v |-> FRound(s.h)]
      [] s.t = "null" -> [ok |-> TRUE, v |-> 0]
      [] OTHER        -> [ok |-> FALSE, v |-> 0]

UnmarshalInt64(s) ==
    CASE s.t = "num" /\ s.h % 2 = 0 /\ s.h \div 2 >= MinInt64 /\ s.h \div 2 <= MaxInt64
                      -> [ok |-> TRUE, v |-> s.h \div 2]
      [] s.t = "null" -> [ok |-> TRUE, v |-> 0]
      [] OTHER        -> [ok |-> FALSE, v |-> 0]

UnmarshalUint64(s) ==
    CASE s.t = "num" /\ s.h % 2 = 0 /\ s.h \div 2 >= 0 /\ s.h \div 2 <= MaxUint64
                      -> [ok |-> TRUE, v |-> s.h \div 2]
      [] s.t = "null" -> [ok |-> TRUE, v |-> 0]
      [] OTHER        -> [ok |-> FALSE, v |-> 0]

Unmarshal(typ, s) ==
    CASE typ = "float64" -> UnmarshalFloat64(s)
      [] typ = "uint64"  -> UnmarshalUint64(s)
      [] typ = "int64"   -> UnmarshalInt64(s)

\* json.Marshal of the typed result: a float64 in half units, an integer as is
Marshal(typ, v) == IF typ = "float64" THEN Num(v) ELSE IntNum(v)

NumTypes == {"float64", "uint64", "int64"}

---------------------------------------------------------------------------
(***************************************************************************)
(* The numeric reducers.  Each loop is a left fold over values; acc holds  *)
(* the accumulator, nan whether a float accumulator is still NaN, and      *)
(* handledAny as in the code.                                              *)
(***************************************************************************)
SumStep(typ, sum, v) ==
    CASE typ = "float64" -> FRound(sum + v)
      [] typ = "uint64"  -> WrapU(sum + v)
      [] typ = "int64"   -> WrapI(sum + v)

RECURSIVE SumLoop(_, _, _, _)
SumLoop(typ, values, i, st) ==
    IF i > Len(values) THEN st
    ELSE LET d == Unmarshal(typ, values[i])
         IN  IF ~d.ok THEN SumLoop(typ, values, i + 1, st)
             ELSE SumLoop(typ, values, i + 1,
                          [acc |-> SumStep(typ, st.acc, d.v), handledAny |-> TRUE])

numericSum(typ, values) ==
    IF Len(values) = 0 THEN NilBytes
    ELSE IF typ \notin NumTypes THEN NilBytes
    ELSE LET st == SumLoop(typ, values, 1, [acc |-> 0, handledAny |-> FALSE])
         IN  IF ~st.handledAny THEN NilBytes ELSE Marshal(typ, st.acc)

RECURSIVE MaxLoop(_, _, _, _)
MaxLoop(typ, values, i, st) ==
    IF i > Len(values) THEN st
    ELSE LET d == Unmarshal(typ, values[i])
         IN  IF ~d.ok THEN MaxLoop(typ, values, i + 1, st)
             ELSE IF typ = "float64"
                  THEN MaxLoop(typ, values, i + 1,
                               [acc |-> IF st.nan \/ d.v > st.acc THEN d.v ELSE st.acc,
                                nan |-> FALSE, handledAny |-> TRUE])
                  ELSE MaxLoop(typ, values, i + 1,
                               [acc |-> IF d.v > st.acc THEN d.v ELSE st.acc,
                                nan |-> FALSE, handledAny |-> TRUE])

\* a max without handledAny: nothing decoded is told by the result still being the
\* value the loop started from
numericMax_bySentinel(typ, values) ==
    IF Len(values) = 0 THEN NilBytes
    ELSE IF typ \notin NumTypes THEN NilBytes
    ELSE LET init == CASE typ = "float64" -> [acc |-> 0, nan |-> TRUE, handledAny |-> FALSE]
                       [] typ = "uint64"  -> [acc |-> 0, nan |-> FALSE, handledAny |-> FALSE]
                       [] typ = "int64"   -> [acc |-> MinInt64, nan |-> FALSE,
                                              handledAny |-> FALSE]
             st   == MaxLoop(typ, values, 1, init)
         IN  IF st.acc = init.acc /\ st.nan = init.nan THEN NilBytes
             ELSE Marshal(typ, st.acc)

numericMax(typ, values) ==
    IF Len(values) = 0 THEN NilBytes
    ELSE IF typ \notin NumTypes THEN NilBytes
    ELSE LET init == CASE typ = "float64" -> [acc |-> 0, nan |-> TRUE, handledAny |-> FALSE]
                       [] typ = "uint64"  -> [acc |-> 0, nan |-> FALSE, handledAny |-> FALSE]
                       [] typ = "int64"   -> [acc |-> MinInt64, nan |-> FALSE,
                                              handledAny |-> FALSE]
             st   == MaxLoop(typ, values, 1, init)
         IN  IF ~st.handledAny THEN NilBytes ELSE Marshal(typ, st.acc)

RECURSIVE MinLoop(_, _, _, _)
MinLoop(typ, values, i, st) ==
    IF i > Len(values) THEN st
    ELSE LET d == Unmarshal(typ, values[i])
         IN  IF ~d.ok THEN MinLoop(typ, values, i + 1, st)
             ELSE IF typ = "float64"
                  THEN MinLoop(typ, values, i + 1,
                               [acc |-> IF st.nan \/ d.v < st.acc THEN d.v ELSE st.acc,
                                nan |-> FALSE, handledAny |-> TRUE])
                  ELSE MinLoop(typ, values, i + 1,
                               [acc |-> IF d.v < st.acc THEN d.v ELSE st.acc,
                                nan |-> FALSE, handledAny |-> TRUE])

numericMin(typ, values) ==
    IF Len(values) = 0 THEN NilBytes
    ELSE IF typ \notin NumTypes THEN NilBytes
    ELSE LET init == CASE typ = "float64" -> [acc |-> 0, nan |-> TRUE, handledAny |-> FALSE]
                       [] typ = "uint64"  -> [acc |-> MaxUint64, nan |-> FALSE,
                                              handledAny |-> FALSE]
                       [] typ = "int64"   -> [acc |-> MaxInt64, nan |-> FALSE,
                                              handledAny |-> FALSE]
             st   == MinLoop(typ, values, 1, init)
         IN  IF ~st.handledAny THEN NilBytes ELSE Marshal(typ, st.acc)

\* Go's integer division truncates toward zero
TruncDiv(a, b) == IF a >= 0 THEN a \div b ELSE -((-a) \div b)

\* the float64 nearest to (sum / 2) / count, in half units when it is a multiple of
\* a half unit, else kept as the quotient it is nearest to
FloatQuot(sum, count) ==
    IF sum % count = 0 THEN Num(FRound(sum \div count))
    ELSE [t |-> "quot", h |-> sum, n |-> count]

RECURSIVE AvgLoop(_, _, _, _)
AvgLoop(typ, values, i, st) ==
    IF i > Len(values) THEN st
    ELSE LET d == Unmarshal(typ, values[i])
         IN  IF ~d.ok THEN AvgLoop(typ, values, i + 1, st)
             ELSE AvgLoop(typ, values, i + 1,
                          [sum |-> SumStep(typ, st.sum, d.v), count |-> st.count + 1,
                           handledAny |-> TRUE])

numericAvg(typ, values) ==
    IF Len(values) = 0 THEN NilBytes
    ELSE IF typ \notin NumTypes THEN NilBytes
    ELSE LET st == AvgLoop(typ, values, 1, [sum |-> 0, count |-> 0, handledAny |-> FALSE])
         IN  IF st.count = 0 THEN NilBytes
             ELSE IF ~st.handledAny THEN NilBytes
             ELSE IF typ = "float64" THEN FloatQuot(st.sum, st.count)
             ELSE Marshal(typ, TruncDiv(st.sum, st.count))

\* the stateAggregator wrappers the catalog refers to
maxFloat64(values) == numericMax("float64", values)

sumFloat64(values) == numericSum("float64", values)

sumUint64(values) == numericSum("uint64", values)

maxInt64(values) == numericMax("int64", values)

minInt64(values) == numericMin("int64", values)

sumInt64(values) == numericSum("int64", values)

\* calling a stateAggregator of the catalog by the name the model keeps for it
Apply(aggregator, values) ==
    CASE aggregator = "sumFloat64" -> sumFloat64(values)
      [] aggregator = "maxFloat64" -> maxFloat64(values)
      [] aggregator = "sumInt64"   -> sumInt64(values)
      [] aggregator = "maxInt64"   -> maxInt64(values)
      [] aggregator = "minInt64"   -> minInt64(values)
      [] aggregator = "sumUint64"  -> sumUint64(values)

---------------------------------------------------------------------------
(***************************************************************************)
(* The aggregator catalog: indicator name -> stateAggregator, per scope.   *)
(***************************************************************************)
pipelineIndicatorAggregateMap ==
    "THROUGHPUT_RATE_LAST_1MIN_ALL" :> "sumFloat64" @@
    "THROUGHPUT_RATE_LAST_5MIN_ALL" :> "sumFloat64" @@
    "THROUGHPUT_RATE_LAST_15MIN_ALL" :> "sumFloat64" @@
    "EXECUTION_COUNT_ALL" :> "sumInt64" @@
    "EXECUTION_TIME_MAX_ALL" :> "maxInt64" @@
    "EXECUTION_TIME_MIN_ALL" :> "minInt64" @@
    "EXECUTION_TIME_50_PERCENT_ALL" :> "maxFloat64" @@
    "EXECUTION_TIME_90_PERCENT_ALL" :> "maxFloat64" @@
    "EXECUTION_TIME_99_PERCENT_ALL" :> "maxFloat64" @@
    "EXECUTION_TIME_STD_DEV_ALL" :> "maxFloat64" @@
    "EXECUTION_TIME_VARIANCE_ALL" :> "maxFloat64" @@
    "EXECUTION_TIME_SUM_ALL" :> "sumInt64"

pluginIndicatorAggregateMap ==
    "THROUGHPUT_RATE_LAST_1MIN_ALL" :> "sumFloat64" @@
    "THROUGHPUT_RATE_LAST_5MIN_ALL" :> "sumFloat64" @@
    "THROUGHPUT_RATE_LAST_15MIN_ALL" :> "sumFloat64" @@
    "THROUGHPUT_RATE_LAST_1MIN_SUCCESS" :> "sumFloat64" @@
    "THROUGHPUT_RATE_LAST_5MIN_SUCCESS" :> "sumFloat64" @@
    "THROUGHPUT_RATE_LAST_15MIN_SUCCESS" :> "sumFloat64" @@
    "THROUGHPUT_RATE_LAST_1MIN_FAILURE" :> "sumFloat64" @@
    "THROUGHPUT_RATE_LAST_5MIN_FAILURE" :> "sumFloat64" @@
    "THROUGHPUT_RATE_LAST_15MIN_FAILURE" :> "sumFloat64" @@
    "EXECUTION_COUNT_ALL" :> "sumInt64" @@
    "EXECUTION_COUNT_SUCCESS" :> "sumInt64" @@
    "EXECUTION_COUNT_FAILURE" :> "sumInt64" @@
    "EXECUTION_TIME_MAX_ALL" :> "maxInt64" @@
    "EXECUTION_TIME_MAX_SUCCESS" :> "maxInt64" @@
    "EXECUTION_TIME_MAX_FAILURE" :> "maxInt64" @@
    "EXECUTION_TIME_MIN_ALL" :> "minInt64" @@
    "EXECUTION_TIME_MIN_SUCCESS" :> "minInt64" @@
    "EXECUTION_TIME_MIN_FAILURE" :> "minInt64" @@
    "EXECUTION_TIME_50_PERCENT_SUCCESS" :> "maxFloat64" @@
    "EXECUTION_TIME_50_PERCENT_FAILURE" :> "maxFloat64" @@
    "EXECUTION_TIME_90_PERCENT_SUCCESS" :> "maxFloat64" @@
    "EXECUTION_TIME_90_PERCENT_FAILURE" :> "maxFloat64" @@
    "EXECUTION_TIME_99_PERCENT_SUCCESS" :> "maxFloat64" @@
    "EXECUTION_TIME_99_PERCENT_FAILURE" :> "maxFloat64" @@
    "EXECUTION_TIME_STD_DEV_SUCCESS" :> "maxFloat64" @@
    "EXECUTION_TIME_STD_DEV_FAILURE" :> "maxFloat64" @@
    "EXECUTION_TIME_VARIANCE_SUCCESS" :> "maxFloat64" @@
    "EXECUTION_TIME_VARIANCE_FAILURE" :> "maxFloat64" @@
    "EXECUTION_TIME_SUM_ALL" :> "sumInt64" @@
    "EXECUTION_TIME_SUM_SUCCESS" :> "sumInt64" @@
    "EXECUTION_TIME_SUM_FAILURE" :> "sumInt64" @@
    "WAIT_QUEUE_LENGTH" :> "sumUint64" @@
    "WIP_REQUEST_COUNT" :> "sumUint64" @@
    "RECENT_HEADER_COUNT " :> "sumUint64"

taskIndicatorAggregateMap ==
    "EXECUTION_COUNT_ALL" :> "sumUint64" @@
    "EXECUTION_COUNT_SUCCESS" :> "sumUint64" @@
    "EXECUTION_COUNT_FAILURE" :> "sumUint64"

\* map[name] of a Go map of funcs: the nil func when the key is absent
Lookup(map, name) == IF name \in DOMAIN map THEN map[name] ELSE "nil"

---------------------------------------------------------------------------
(***************************************************************************)
(* Byte blobs holding JSON documents (RespStat.Names, .Value, .Desc).      *)
(*   nil     no bytes                  bad    bytes that are not JSON      *)
(*   names   {"Names": names}          value  {"Value": val}               *)
(*   desc    {"Desc": val}             scalar a bare scalar val            *)
(*   list    [{"Value": v}, ...] for the scalars v of list                 *)
(* A name is a string, kept as the sequence of its character codes.        *)
(***************************************************************************)
Blob(k, names, val, list) == [k |-> k, names |-> names, val |-> val, list |-> list]

NilBlob == Blob("nil", <<>>, Null, <<>>)

BadBlob == Blob("bad", <<>>, Null, <<>>)

NamesBlob(names) == Blob("names", names, Null, <<>>)

ValueBlob(val) == Blob("value", <<>>, val, <<>>)

DescBlob(val) == Blob("desc", <<>>, val, <<>>)

ScalarBlob(val) == Blob("scalar", <<>>, val, <<>>)

ListBlob(list) == Blob("list", <<>>, Null, list)

\* a string scalar; StrVal(0) is the empty string
StrVal(i) == [t |-> "str", h |-> i]

\* the []byte a reducer returns, as the blob of RespStat.Value
BlobOf(s) == IF s.t = "nil" THEN NilBlob ELSE ScalarBlob(s)

(***************************************************************************)
(* json.Unmarshal of a blob into one of the three result structs.  An      *)
(* object decodes into any of them, a key the struct lacks is ignored; the *)
(* text null decodes into anything and sets nothing; everything else that  *)
(* is not an object is an error.                                           *)
(***************************************************************************)
IsObject(b) == b.k \in {"names", "value", "desc"}

DecodesToStruct(b) == IsObject(b) \/ (b.k = "scalar" /\ b.val.t = "null")

\* into ResultStatIndicatorNames: [err, Names]
UnmarshalNames(b) ==
    [err |-> ~DecodesToStruct(b), Names |-> IF b.k = "names" THEN b.names ELSE <<>>]

\* into ResultStatIndicatorValue: [err, Value], Value an interface{} (Null is nil)
UnmarshalValue(b) ==
    [err |-> ~DecodesToStruct(b), Value |-> IF b.k = "value" THEN DecodeAny(b.val) ELSE Null]

\* into ResultStatIndicatorDesc: [err, Desc], Desc nil (Null) when absent
UnmarshalDesc(b) ==
    [err |-> ~DecodesToStruct(b), Desc |-> IF b.k = "desc" THEN DecodeAny(b.val) ELSE Null]

---------------------------------------------------------------------------
(* sort.Strings: ascending byte-wise lexicographic order. *)

RECURSIVE LexLess(_, _)
LexLess(a, b) ==
    IF Len(a) = 0 THEN Len(b) > 0
    ELSE IF Len(b) = 0 THEN FALSE
    ELSE IF a[1] # b[1] THEN a[1] < b[1]
    ELSE LexLess(Tail(a), Tail(b))

RECURSIVE InsertSorted(_, _)
InsertSorted(x, s) ==
    IF Len(s) = 0 THEN <<x>>
    ELSE IF LexLess(x, s[1]) THEN <<x>> \o s
    ELSE <<s[1]>> \o InsertSorted(x, Tail(s))

\* sort.Strings left out: the list comes back in the order it was given
SortStrings_unsorted(s) == s

RECURSIVE SortStrings(_)
SortStrings(s) == IF Len(s) = 0 THEN <<>> ELSE InsertSorted(s[1], SortStrings(Tail(s)))

---------------------------------------------------------------------------
(***************************************************************************)
(* ClusterError, RespStat, ReqStat.                                        *)
(***************************************************************************)
\* a nil *ClusterError
NoErr == [Type |-> "nil", Message |-> ""]

newClusterError(msg, typ) == [Type |-> typ, Message |-> msg]

RespStat(names, value, desc, err) ==
    [Names |-> names, Value |-> value, Desc |-> desc, Err |-> err]

ZeroRespStat == RespStat(NilBlob, NilBlob, NilBlob, NoErr)

(***************************************************************************)
(* A *RespStat: nil, or pointing at v.  panic marks the run-time panic of  *)
(* a nil pointer dereference inside the function that was to return it.    *)
(***************************************************************************)
Ptr(r) == [nil |-> FALSE, panic |-> FALSE, v |-> r]

NilPtr == [nil |-> TRUE, panic |-> FALSE, v |-> ZeroRespStat]

PanicPtr == [nil |-> TRUE, panic |-> TRUE, v |-> ZeroRespStat]

\* a filter field of ReqStat: a nil pointer, or a filter with its selectors
NilFilter == [nil |-> TRUE, PipelineName |-> "", PluginName |-> "", IndicatorName |-> ""]

Filter(pipeline, plugin, indicator) ==
    [nil |-> FALSE, PipelineName |-> pipeline, PluginName |-> plugin,
     IndicatorName |-> indicator]

FilterFields ==
    <<"FilterPipelineIndicatorNames", "FilterPipelineIndicatorValue",
      "FilterPipelineIndicatorDesc",
      "FilterPluginIndicatorNames", "FilterPluginIndicatorValue",
      "FilterPluginIndicatorDesc",
      "FilterTaskIndicatorNames", "FilterTaskIndicatorValue",
      "FilterTaskIndicatorDesc">>

FilterFieldSet == {FilterFields[i] : i \in 1..Len(FilterFields)}

\* the ReqStat with no filter set
EmptyReqStat(timeout) ==
    [f \in FilterFieldSet \cup {"Timeout"} |-> IF f = "Timeout" THEN timeout ELSE NilFilter]

---------------------------------------------------------------------------
(***************************************************************************)
(* aggregateStatResponses                                                  *)
(***************************************************************************)
Contains(s, x) == \E i \in 1..Len(s) : s[i] = x

\* the inner loop of the Names case: append the names memory has not seen
RECURSIVE AppendUnseen(_, _)
AppendUnseen(acc, names) ==
    IF Len(names) = 0 THEN acc
    ELSE AppendUnseen(IF Contains(acc, names[1]) THEN acc ELSE Append(acc, names[1]),
                      Tail(names))

RECURSIVE UnionNames(_, _)
UnionNames(acc, respStats) ==
    IF Len(respStats) = 0 THEN acc
    ELSE LET r == UnmarshalNames(respStats[1].Names)
         IN  UnionNames(IF r.err THEN acc ELSE AppendUnseen(acc, r.Names), Tail(respStats))

aggregateNames(respStats) ==
    Ptr(RespStat(NamesBlob(SortStrings(UnionNames(<<>>, respStats))),
                 NilBlob, NilBlob, NoErr))

RECURSIVE aggregateDesc(_)
aggregateDesc(respStats) ==
    IF Len(respStats) = 0 THEN NilPtr
    ELSE LET r == UnmarshalDesc(respStats[1].Desc)
         IN  IF r.err \/ r.Desc = Null THEN aggregateDesc(Tail(respStats))
             ELSE Ptr(RespStat(NilBlob, NilBlob, respStats[1].Desc, NoErr))

\* one "if len(indicatorName) == 0 { ... }" block of the fall-through chain
ScopeStep(s, filter, map) ==
    IF s.panic \/ s.name # "" THEN s
    ELSE IF filter.nil THEN [s EXCEPT !.panic = TRUE]
    ELSE [name  |-> filter.IndicatorName,
          agg   |-> IF s.agg = "nil" THEN Lookup(map, filter.IndicatorName) ELSE s.agg,
          panic |-> FALSE]

\* a lookup that goes on to the tables of the other scopes when a table lacks the name
ValueScope_anyTable(reqStat) ==
    LET f == IF ~reqStat.FilterPipelineIndicatorValue.nil
             THEN reqStat.FilterPipelineIndicatorValue
             ELSE IF ~reqStat.FilterPluginIndicatorValue.nil
             THEN reqStat.FilterPluginIndicatorValue
             ELSE reqStat.FilterTaskIndicatorValue
        name == f.IndicatorName
    IN  [name  |-> name,
         agg   |-> IF Lookup(pipelineIndicatorAggregateMap, name) # "nil"
                   THEN Lookup(pipelineIndicatorAggregateMap, name)
                   ELSE IF Lookup(pluginIndicatorAggregateMap, name) # "nil"
                   THEN Lookup(pluginIndicatorAggregateMap, name)
                   ELSE Lookup(taskIndicatorAggregateMap, name),
         panic |-> FALSE]

\* indicatorName and aggregator after the Value cases, entered at the first non-nil one
ValueScope(reqStat) ==
    LET s0 == [name |-> "", agg |-> "nil", panic |-> FALSE]
        p  == ScopeStep(s0, reqStat.FilterPipelineIndicatorValue,
                        pipelineIndicatorAggregateMap)
        g(s) == ScopeStep(s, reqStat.FilterPluginIndicatorValue,
                          pluginIndicatorAggregateMap)
        t(s) == ScopeStep(s, reqStat.FilterTaskIndicatorValue, taskIndicatorAggregateMap)
    IN  IF ~reqStat.FilterPipelineIndicatorValue.nil THEN t(g(p))
        ELSE IF ~reqStat.FilterPluginIndicatorValue.nil THEN t(g(s0))
        ELSE t(s0)

\* the loop of IndicatorValues without its "r.Value == nil" test
RECURSIVE IndicatorValues_keepNil(_)
IndicatorValues_keepNil(respStats) ==
    IF Len(respStats) = 0 THEN <<>>
    ELSE LET r == UnmarshalValue(respStats[1].Value)
         IN  (IF r.err THEN <<>> ELSE <<r.Value>>)
             \o IndicatorValues_keepNil(Tail(respStats))

\* the partials whose Value decodes and is not nil, as decoded
RECURSIVE IndicatorValues(_)
IndicatorValues(respStats) ==
    IF Len(respStats) = 0 THEN <<>>
    ELSE LET r == UnmarshalValue(respStats[1].Value)
         IN  (IF r.err \/ r.Value = Null THEN <<>> ELSE <<r.Value>>)
             \o IndicatorValues(Tail(respStats))

aggregateValue(reqStat, respStats) ==
    LET s == ValueScope(reqStat)
        indicatorValues == IndicatorValues(respStats)
    IN  IF s.panic THEN PanicPtr
        ELSE IF s.name = "" THEN NilPtr
        ELSE IF s.agg = "nil"
             THEN Ptr(RespStat(NilBlob, ListBlob(indicatorValues), NilBlob, NoErr))
        ELSE IF Len(indicatorValues) = 0 THEN NilPtr
        ELSE LET value == Apply(s.agg, indicatorValues)
             IN  IF value # NilBytes
                 THEN Ptr(RespStat(NilBlob, BlobOf(value), NilBlob, NoErr))
                 ELSE NilPtr

aggregateStatResponses(reqStat, respStats) ==
    IF \/ ~reqStat.FilterPipelineIndicatorNames.nil
       \/ ~reqStat.FilterPluginIndicatorNames.nil
       \/ ~reqStat.FilterTaskIndicatorNames.nil
    THEN aggregateNames(respStats)
    ELSE IF \/ ~reqStat.FilterPipelineIndicatorDesc.nil
            \/ ~reqStat.FilterPluginIndicatorDesc.nil
            \/ ~reqStat.FilterTaskIndicatorDesc.nil
    THEN aggregateDesc(respStats)
    ELSE IF \/ ~reqStat.FilterPipelineIndicatorValue.nil
            \/ ~reqStat.FilterPluginIndicatorValue.nil
            \/ ~reqStat.FilterTaskIndicatorValue.nil
    THEN aggregateValue(reqStat, respStats)
    ELSE NilPtr

---------------------------------------------------------------------------
(***************************************************************************)
(* The cluster: nodes, groups, the membership snapshot.                    *)
(***************************************************************************)
Nodes == {"n1", "n2", "n3"}

NodeSeq == <<"n1", "n2", "n3">>

Groups == {"g1", "g2"}

Member(name, group, mode, status) ==
    [NodeName |-> name, group |-> group, mode |-> mode, Status |-> status]

\* what a member of the snapshot may be: (group tag, mode tag, status)
MemberKinds ==
    { <<"g1", "Read", "MemberAlive">>, <<"g1", "Write", "MemberAlive">>,
      <<"g1", "Read", "MemberFailed">>, <<"g1", "Write", "MemberLeft">>,
      <<"g2", "Read", "MemberAlive">> }

Snapshots ==
    { [i \in 1..Len(NodeSeq) |-> Member(NodeSeq[i], k[i][1], k[i][2], k[i][3])] :
        k \in [1..Len(NodeSeq) -> MemberKinds] }

InGroupAlive(member, group) == member.group = group /\ member.Status = "MemberAlive"

(***************************************************************************)
(* chooseMemberToAggregateStat.  readMembers and writeMembers hold &member,*)
(* the address of the range variable.  A build in which the range variable *)
(* is one variable for the whole loop leaves every pointer at the last     *)
(* element of totalMembers; a build with one variable per iteration leaves *)
(* each at its own element.  The result is the set of outcomes of either   *)
(* build and of rand.Int(): [err, member].                                 *)
(***************************************************************************)
NoMember == Member("", "", "", "")

Deref(totalMembers, i) == {totalMembers[i], totalMembers[Len(totalMembers)]}

\* the selector without its "member.Status == cluster.MemberAlive" test
chooseMemberToAggregateStat_ignoreStatus(totalMembers, group) ==
    LET readMembers  == {i \in 1..Len(totalMembers) :
                            /\ totalMembers[i].group = group
                            /\ totalMembers[i].mode = "Read"}
        writeMembers == {i \in 1..Len(totalMembers) :
                            /\ totalMembers[i].group = group
                            /\ totalMembers[i].mode # "Read"}
        picked(idx)  == UNION {Deref(totalMembers, i) : i \in idx}
    IN  IF readMembers # {}
        THEN {[err |-> FALSE, member |-> m] : m \in picked(readMembers)}
        ELSE IF writeMembers # {}
        THEN {[err |-> FALSE, member |-> m] : m \in picked(writeMembers)}
        ELSE {[err |-> TRUE, member |-> NoMember]}

chooseMemberToAggregateStat(totalMembers, group) ==
    LET readMembers  == {i \in 1..Len(totalMembers) :
                            /\ InGroupAlive(totalMembers[i], group)
                            /\ totalMembers[i].mode = "Read"}
        writeMembers == {i \in 1..Len(totalMembers) :
                            /\ InGroupAlive(totalMembers[i], group)
                            /\ totalMembers[i].mode # "Read"}
        picked(idx)  == UNION {Deref(totalMembers, i) : i \in idx}
    IN  IF readMembers # {}
        THEN {[err |-> FALSE, member |-> m] : m \in picked(readMembers)}
        ELSE IF writeMembers # {}
        THEN {[err |-> FALSE, member |-> m] : m \in picked(writeMembers)}
        ELSE {[err |-> TRUE, member |-> NoMember]}

---------------------------------------------------------------------------
(***************************************************************************)
(* Payloads on the wire: <<>> is the empty payload, else <<kind, body>>.   *)
(* The body of a request is [decodes, reqStat], of a response [decodes,    *)
(* resp]; decodes is whether cluster.Unpack succeeds on it.                *)
(***************************************************************************)
ReqBody(reqStat) == [decodes |-> TRUE, reqStat |-> reqStat]

RespBody(resp) == [decodes |-> TRUE, resp |-> resp]

GarbledResp == [decodes |-> FALSE, resp |-> ZeroRespStat]

(***************************************************************************)
(* unpackReqStat: [err, errType, msg, reqStat].  The switch takes the      *)
(* first filter that is set, in the order of FilterFields.                 *)
(***************************************************************************)
RECURSIVE FirstSet(_, _)
FirstSet(reqStat, i) ==
    IF i > Len(FilterFields) THEN "none"
    ELSE IF ~reqStat[FilterFields[i]].nil THEN FilterFields[i]
    ELSE FirstSet(reqStat, i + 1)

\* the selectors the case of a filter field checks, in the order it checks them
RequiredSelectors(field) ==
    CASE field \in {"FilterPipelineIndicatorNames", "FilterTaskIndicatorNames"}
            -> <<"PipelineName">>
      [] field \in {"FilterPipelineIndicatorValue", "FilterPipelineIndicatorDesc",
                    "FilterTaskIndicatorValue", "FilterTaskIndicatorDesc"}
            -> <<"PipelineName", "IndicatorName">>
      [] field = "FilterPluginIndicatorNames"
            -> <<"PipelineName", "PluginName">>
      [] field \in {"FilterPluginIndicatorValue", "FilterPluginIndicatorDesc"}
            -> <<"PipelineName", "PluginName", "IndicatorName">>

\* unpackReqStat without the tests for empty names in the filter
unpackReqStat_noSelectorCheck(body) ==
    LET reqStat == body.reqStat
        field   == FirstSet(reqStat, 1)
        fail(typ, msg) == [err |-> TRUE, errType |-> typ, msg |-> msg,
                           reqStat |-> reqStat]
    IN  IF ~body.decodes THEN fail("WrongMessageFormatError", "unpack to ReqStat failed")
        ELSE IF field = "none" THEN fail("InternalServerError", "empty statistics filter")
        ELSE [err |-> FALSE, errType |-> "NoneError", msg |-> "", reqStat |-> reqStat]

unpackReqStat(body) ==
    LET reqStat == body.reqStat
        field   == FirstSet(reqStat, 1)
        fail(typ, msg) == [err |-> TRUE, errType |-> typ, msg |-> msg,
                           reqStat |-> reqStat]
    IN  IF ~body.decodes THEN fail("WrongMessageFormatError", "unpack to ReqStat failed")
        ELSE IF field = "none" THEN fail("InternalServerError", "empty statistics filter")
        ELSE IF \E i \in 1..Len(RequiredSelectors(field)) :
                    reqStat[field][RequiredSelectors(field)[i]] = ""
        THEN fail("InternalServerError", "empty name in filter")
        ELSE [err |-> FALSE, errType |-> "NoneError", msg |-> "", reqStat |-> reqStat]

---------------------------------------------------------------------------
(***************************************************************************)
(* statResult and getLocalStatResp.  reg is what the node's statistics     *)
(* registry answers when it is read: whether the pipeline has statistics,  *)
(* the indicator names, the value and description and whether retrieving   *)
(* them fails.                                                             *)
(***************************************************************************)
RegRead(found, names, value, valueErr, desc, descErr) ==
    [found |-> found, names |-> names, value |-> value, valueErr |-> valueErr,
     desc |-> desc, descErr |-> descErr]

ScopeOf(field) ==
    CASE field \in {"FilterPipelineIndicatorNames", "FilterPipelineIndicatorValue",
                    "FilterPipelineIndicatorDesc"} -> "Pipeline"
      [] field \in {"FilterPluginIndicatorNames", "FilterPluginIndicatorValue",
                    "FilterPluginIndicatorDesc"} -> "Plugin"
      [] OTHER -> "Task"

FacetOf(field) ==
    CASE field \in {"FilterPipelineIndicatorNames", "FilterPluginIndicatorNames",
                    "FilterTaskIndicatorNames"} -> "Names"
      [] field \in {"FilterPipelineIndicatorValue", "FilterPluginIndicatorValue",
                    "FilterTaskIndicatorValue"} -> "Value"
      [] OTHER -> "Desc"

\* a statResult that reports every failed registry call with the pipeline scope's
\* error kinds
statResult_pipelineKinds(field, reg) ==
    LET fail(typ, msg) == [buf |-> NilBlob, err |-> TRUE, errType |-> typ, msg |-> msg]
        done(buf) == [buf |-> buf, err |-> FALSE, errType |-> "NoneError", msg |-> ""]
    IN  IF field \notin FilterFieldSet
        THEN fail("InternalServerError", "unsupported statistics filter type")
        ELSE IF ~reg.found
        THEN fail("PipelineStatNotFoundError", "pipeline statistics not found")
        ELSE IF FacetOf(field) = "Names" THEN done(NamesBlob(SortStrings(reg.names)))
        ELSE IF FacetOf(field) = "Value"
        THEN IF reg.valueErr
             THEN fail("RetrievePipelineStatValueError", "retrieve value failed")
             ELSE IF reg.value.t = "nan"
             THEN fail("InternalServerError", "marshal statistics result failed")
             ELSE done(ValueBlob(reg.value))
        ELSE IF reg.descErr
             THEN fail("RetrievePipelineStatDescError", "retrieve description failed")
             ELSE done(DescBlob(reg.desc))

\* [buf, err, errType, msg]
statResult(field, reg) ==
    LET fail(typ, msg) == [buf |-> NilBlob, err |-> TRUE, errType |-> typ, msg |-> msg]
        done(buf) == [buf |-> buf, err |-> FALSE, errType |-> "NoneError", msg |-> ""]
    IN  IF field \notin FilterFieldSet
        THEN fail("InternalServerError", "unsupported statistics filter type")
        ELSE IF ~reg.found
        THEN fail("PipelineStatNotFoundError", "pipeline statistics not found")
        ELSE IF FacetOf(field) = "Names" THEN done(NamesBlob(SortStrings(reg.names)))
        ELSE IF FacetOf(field) = "Value"
        THEN IF reg.valueErr
             THEN fail("Retrieve" \o ScopeOf(field) \o "StatValueError",
                       "retrieve value failed")
             ELSE IF reg.value.t = "nan"
             THEN fail("InternalServerError", "marshal statistics result failed")
             ELSE done(ValueBlob(reg.value))
        ELSE IF reg.descErr
             THEN fail("Retrieve" \o ScopeOf(field) \o "StatDescError",
                       "retrieve description failed")
             ELSE done(DescBlob(reg.desc))

\* [resp (a *RespStat), err, errType, msg]
getLocalStatResp(reqStat, reg) ==
    LET field == FirstSet(reqStat, 1)
        r     == statResult(field, reg)
    IN  IF field = "none"
        THEN [resp |-> Ptr(ZeroRespStat), err |-> FALSE, errType |-> "NoneError",
              msg |-> ""]
        ELSE IF r.err
        THEN [resp |-> NilPtr, err |-> TRUE, errType |-> r.errType, msg |-> r.msg]
        ELSE [resp |-> Ptr(CASE FacetOf(field) = "Names"
                                  -> RespStat(r.buf, NilBlob, NilBlob, NoErr)
                             [] FacetOf(field) = "Value"
                                  -> RespStat(NilBlob, r.buf, NilBlob, NoErr)
                             [] FacetOf(field) = "Desc"
                                  -> RespStat(NilBlob, NilBlob, r.buf, NoErr)),
              err |-> FALSE, errType |-> "NoneError", msg |-> ""]

---------------------------------------------------------------------------
(***************************************************************************)
(* respondStat, respondStatErr: the payload handed to req.Respond, <<>>    *)
(* when nothing is sent.  Packing a nil *RespStat packs the nil value,     *)
(* which unpacks into a RespStat with nothing set.                         *)
(***************************************************************************)
\* a respondStat that packs every response with the header statMessage
respondStat_fixedKind(requestPayload, resp) ==
    IF Len(requestPayload) = 0 THEN <<>>
    ELSE <<"statMessage", RespBody(IF resp.nil THEN ZeroRespStat ELSE resp.v)>>

respondStat(requestPayload, resp) ==
    IF Len(requestPayload) = 0 THEN <<>>
    ELSE <<requestPayload[1], RespBody(IF resp.nil THEN ZeroRespStat ELSE resp.v)>>

\* how many times one call of respondStat calls req.Respond
respondCalls(requestPayload) == IF Len(requestPayload) = 0 THEN 0 ELSE 1

respondStatErr(requestPayload, typ, msg) ==
    respondStat(requestPayload,
                Ptr(RespStat(NilBlob, NilBlob, NilBlob, newClusterError(msg, typ))))

\* respondRetrieveErr packs a response that carries only the error
respondRetrieveErr(requestPayload, typ, msg) ==
    respondStat(requestPayload,
                Ptr(RespStat(NilBlob, NilBlob, NilBlob, newClusterError(msg, typ))))

\* gc.restAliveMembersInSameGroup: the alive members of the node's group but the node
restAliveMembersInSameGroup(totalMembers, self) ==
    LET me == CHOOSE m \in {totalMembers[i] : i \in 1..Len(totalMembers)} :
                  m.NodeName = self
    IN  {m \in {totalMembers[i] : i \in 1..Len(totalMembers)} :
            /\ m.NodeName # self
            /\ InGroupAlive(m, me.group)}

localGroupName(totalMembers, self) ==
    (CHOOSE m \in {totalMembers[i] : i \in 1..Len(totalMembers)} : m.NodeName = self).group

---------------------------------------------------------------------------
(***************************************************************************)
(* State.                                                                  *)
(*   members     the membership snapshot gc.cluster.Members() returns      *)
(*   apiPc       issueStat: idle, waiting (in the select), done            *)
(*   apiFilter   the filter field issueStat was given                      *)
(*   apiSelect   the case issueStat's select took: none, response, closed, *)
(*               stop                                                      *)
(*   apiResult   what issueStat returned: [ret, err]                       *)
(*   requests    the gc.cluster.Request calls that were sent               *)
(*   entryPc     handleStat: idle, waiting (in recordResp), done           *)
(*   entryNode   the node that runs handleStat                             *)
(*   entryReq    the request payload handleStat was given                  *)
(*   apiGroup    the group issueStat was given                             *)
(*   localResp   what getLocalStatResp returned to handleStat              *)
(*   book        membersRespBook: peer name -> payload, <<>> for nil       *)
(*   handled     the peers whose reply has been recorded or garbled        *)
(*   deliveries  peer name -> how many times its response was delivered    *)
(*   validResps  handleStat's validRespList when it called the combiner    *)
(*   ret         what aggregateStatResponses returned to handleStat        *)
(*   reply       the payload handleStat responded with, <<>> for none      *)
(*   responded   how many times handleStat has called req.Respond          *)
(*   aggPc, aggReq, aggIn, aggOut   the combiner on its own (SpecAgg)      *)
(*   valPc, valIn, valOut   one handler call on its own (SpecHandle): the  *)
(*               request event and registry read it is given, and what it  *)
(*               did; one reducer call on its own (SpecReduce): the type   *)
(*               and the values it is given, and the bytes it returned     *)
(***************************************************************************)
VARIABLES members, apiPc, apiGroup, apiFilter, apiSelect, apiResult, requests,
          entryPc, entryNode, entryReq, localResp, book, handled, deliveries,
          validResps, ret, reply, responded,
          aggPc, aggReq, aggIn, aggOut,
          valPc, valIn, valOut

apiVars == <<apiPc, apiGroup, apiFilter, apiSelect, apiResult>>

entryVars == <<entryPc, entryNode, entryReq, localResp, book, handled, deliveries,
               validResps, ret, reply, responded>>

aggVars == <<aggPc, aggReq, aggIn, aggOut>>

valVars == <<valPc, valIn, valOut>>

vars == <<members, apiVars, requests, entryVars, aggVars, valVars>>

NoResult == [ret |-> NilBlob, err |-> NoErr]

NoValIn == [kind |-> "none", self |-> "", body |-> <<>>, reg |-> <<>>, sendOk |-> FALSE]

NoValOut == [reply |-> <<>>, requests |-> {}, responds |-> 0]

\* the character codes of the names used: "a", "ab", "b", "c"
NameA == <<1>>

NameAB == <<1, 2>>

NameB == <<2>>

NameC == <<3>>

---------------------------------------------------------------------------
(***************************************************************************)
(* Inputs of the protocol.                                                 *)
(***************************************************************************)
\* the filters issueStat is called with: [field, f]; "unsupported" is any other type
ApiFilters ==
    { [field |-> "FilterPipelineIndicatorNames", f |-> Filter("p", "", "")],
      [field |-> "FilterPluginIndicatorNames", f |-> Filter("p", "q", "")],
      [field |-> "FilterTaskIndicatorNames", f |-> Filter("p", "", "")],
      [field |-> "FilterPipelineIndicatorValue", f |-> Filter("p", "", "EXECUTION_COUNT_ALL")],
      [field |-> "FilterPipelineIndicatorValue", f |-> Filter("p", "", "CUSTOM_X")],
      [field |-> "FilterPipelineIndicatorValue", f |-> Filter("p", "", "")],
      [field |-> "FilterPluginIndicatorValue", f |-> Filter("p", "q", "WAIT_QUEUE_LENGTH")],
      [field |-> "FilterTaskIndicatorValue", f |-> Filter("p", "", "EXECUTION_COUNT_ALL")],
      [field |-> "FilterPipelineIndicatorDesc", f |-> Filter("p", "", "EXECUTION_COUNT_ALL")],
      [field |-> "FilterPluginIndicatorDesc", f |-> Filter("p", "q", "WAIT_QUEUE_LENGTH")],
      [field |-> "FilterTaskIndicatorDesc", f |-> Filter("p", "", "EXECUTION_COUNT_ALL")],
      [field |-> "unsupported", f |-> Filter("p", "", "")] }

\* what a registry read may answer
RegReads ==
    { RegRead(FALSE, <<>>, Null, FALSE, Null, FALSE),
      RegRead(TRUE, <<NameB, NameA>>, IntNum(3), FALSE, StrVal(1), FALSE),
      RegRead(TRUE, <<NameA, NameC>>, IntNum(5), FALSE, StrVal(0), FALSE),
      RegRead(TRUE, <<>>, Null, TRUE, Null, TRUE) }

\* responses of a peer that are not what handleStatRelay packs: bytes that do not
\* unpack, and a response with its error set that carries data all the same
MalformedResps ==
    { GarbledResp,
      RespBody(RespStat(NamesBlob(<<NameAB>>), ValueBlob(IntNum(1)), DescBlob(StrVal(2)),
                        newClusterError("failed", "InternalServerError"))) }

\* all orders in which a Go map with the keys S may be ranged over
Perms(S) ==
    {f \in [1..Cardinality(S) -> S] : \A i, j \in 1..Cardinality(S) : i # j => f[i] # f[j]}

MemberOf(totalMembers, name) ==
    CHOOSE m \in {totalMembers[i] : i \in 1..Len(totalMembers)} : m.NodeName = name

\* the transport hands request r to node n: n is named, alive and carries the tags
Reaches(r, n) ==
    /\ n \in r.targets
    /\ MemberOf(members, n).Status = "MemberAlive"
    /\ MemberOf(members, n).group = r.tags.group
    /\ r.tags.mode \in {"", MemberOf(members, n).mode}

Request(by, handling, name, payload, targets, tags, hops) ==
    [by |-> by, handling |-> handling, name |-> name, payload |-> payload,
     targets |-> targets, tags |-> tags, hops |-> hops]

---------------------------------------------------------------------------
(***************************************************************************)
(* issueStat, up to the select on future.Response() and gc.stopChan.       *)
(***************************************************************************)
IssueStat(group, filter, sendOk) ==
    /\ apiPc = "idle"
    /\ apiGroup' = group
    /\ apiFilter' = filter.field
    /\ UNCHANGED <<members, apiSelect, entryVars, aggVars, valVars>>
    /\ IF filter.field \notin FilterFieldSet
       THEN /\ apiPc' = "done"
            /\ apiResult' = [ret |-> NilBlob,
                             err |-> newClusterError("unsupported statistics filter type",
                                                     "InternalServerError")]
            /\ UNCHANGED requests
       ELSE \E c \in chooseMemberToAggregateStat(members, group) :
            LET req == [EmptyReqStat(1) EXCEPT ![filter.field] = filter.f]
                requestPayload == <<"statMessage", ReqBody(req)>>
            IN  IF c.err
                THEN /\ apiPc' = "done"
                     /\ apiResult' =
                          [ret |-> NilBlob,
                           err |-> newClusterError(
                                     "choose member to aggregate statistics failed: none of members is alive to aggregate statistics",
                                     "InternalServerError")]
                     /\ UNCHANGED requests
                ELSE IF ~sendOk
                THEN /\ apiPc' = "done"
                     /\ apiResult' =
                          [ret |-> NilBlob,
                           err |-> newClusterError("issue statistics aggregation failed",
                                                   "InternalServerError")]
                     /\ UNCHANGED requests
                ELSE /\ apiPc' = "waiting"
                     /\ apiResult' = NoResult
                     /\ requests' = requests \cup
                          {Request("api", "none", "stat", requestPayload,
                                   {c.member.NodeName},
                                   [group |-> group, mode |-> c.member.mode], 1)}

\* an issueStat that hands out the facet's field whether or not the response has an error
issueStatResult_fieldWithErr(field, payload) ==
    LET fail(msg) == [ret |-> NilBlob, err |-> newClusterError(msg, "InternalServerError")]
    IN  IF Len(payload) = 0
        THEN fail("issue statistics aggregation responds empty response")
        ELSE IF ~payload[2].decodes
        THEN fail("unpack statistics aggregation response failed")
        ELSE LET resp == payload[2].resp
                 r == CASE FacetOf(field) = "Names" -> resp.Names
                        [] FacetOf(field) = "Value" -> resp.Value
                        [] FacetOf(field) = "Desc"  -> resp.Desc
             IN  [ret |-> r, err |-> resp.Err]

\* issueStat from the response on: [ret, err]
issueStatResult(field, payload) ==
    LET fail(msg) == [ret |-> NilBlob, err |-> newClusterError(msg, "InternalServerError")]
    IN  IF Len(payload) = 0
        THEN fail("issue statistics aggregation responds empty response")
        ELSE IF ~payload[2].decodes
        THEN fail("unpack statistics aggregation response failed")
        ELSE IF payload[2].resp.Err # NoErr
        THEN [ret |-> NilBlob, err |-> payload[2].resp.Err]
        ELSE LET resp == payload[2].resp
                 r == CASE FacetOf(field) = "Names" -> resp.Names
                        [] FacetOf(field) = "Value" -> resp.Value
                        [] FacetOf(field) = "Desc"  -> resp.Desc
             IN  IF r = NilBlob
                 THEN fail("issue statistics aggregation responds invalid result")
                 ELSE [ret |-> r, err |-> NoErr]

\* case r, ok := <-future.Response() with ok: the reply of the entry node arrived
IssueStatReceive ==
    /\ apiPc = "waiting"
    /\ reply # <<>>
    /\ apiPc' = "done"
    /\ apiSelect' = "response"
    /\ apiResult' = issueStatResult(apiFilter, reply)
    /\ UNCHANGED <<members, apiGroup, apiFilter, requests, entryVars, aggVars, valVars>>

\* a wait that the deadline does not end: the channel is read only once a reply is there
IssueStatTimeout_neverCloses ==
    /\ apiPc = "waiting"
    /\ reply # <<>>
    /\ apiPc' = "done"
    /\ apiSelect' = "response"
    /\ apiResult' = issueStatResult(apiFilter, reply)
    /\ UNCHANGED <<members, apiGroup, apiFilter, requests, entryVars, aggVars, valVars>>

\* case r, ok := <-future.Response() with !ok: the future closed at the deadline
IssueStatTimeout ==
    /\ apiPc = "waiting"
    /\ apiPc' = "done"
    /\ apiSelect' = "closed"
    /\ apiResult' = [ret |-> NilBlob,
                     err |-> newClusterError("issue statistics aggregation timeout",
                                             "TimeoutError")]
    /\ UNCHANGED <<members, apiGroup, apiFilter, requests, entryVars, aggVars, valVars>>

\* a stop case that goes on to unpack a response that has arrived meanwhile
IssueStatStop_unpacks ==
    /\ apiPc = "waiting"
    /\ apiPc' = "done"
    /\ apiSelect' = "stop"
    /\ apiResult' = IF reply # <<>> THEN issueStatResult(apiFilter, reply)
                    ELSE [ret |-> NilBlob,
                          err |-> newClusterError(
                                    "the member gone during issuing statistics aggregation",
                                    "IssueMemberGoneError")]
    /\ UNCHANGED <<members, apiGroup, apiFilter, requests, entryVars, aggVars, valVars>>

\* case <-gc.stopChan
IssueStatStop ==
    /\ apiPc = "waiting"
    /\ apiPc' = "done"
    /\ apiSelect' = "stop"
    /\ apiResult' = [ret |-> NilBlob,
                     err |-> newClusterError(
                               "the member gone during issuing statistics aggregation",
                               "IssueMemberGoneError")]
    /\ UNCHANGED <<members, apiGroup, apiFilter, requests, entryVars, aggVars, valVars>>

---------------------------------------------------------------------------
(***************************************************************************)
(* handleStatRelay: what the handler does with a request payload, given    *)
(* the registry read: the payload it responds with (<<>> for none) and the *)
(* cluster requests it issues.                                             *)
(***************************************************************************)
\* a relay handler that sends the request on to the other nodes before it responds
handleStatRelay_rebroadcast(self, requestPayload, reg) ==
    IF Len(requestPayload) = 0 THEN [reply |-> <<>>, requests |-> {}, responds |-> 0]
    ELSE LET u == unpackReqStat(requestPayload[2])
             l == getLocalStatResp(u.reqStat, reg)
             again == Request(self, requestPayload[1], "stat_relay_relay", requestPayload,
                              Nodes \ {self}, [group |-> "g1", mode |-> ""], 3)
         IN  IF u.err
             THEN [reply    |-> respondStatErr(requestPayload, u.errType, u.msg),
                   requests |-> {}, responds |-> respondCalls(requestPayload)]
             ELSE IF l.err
             THEN [reply    |-> respondStatErr(requestPayload, l.errType, l.msg),
                   requests |-> {again}, responds |-> respondCalls(requestPayload)]
             ELSE [reply |-> respondStat(requestPayload, l.resp), requests |-> {again},
                   responds |-> respondCalls(requestPayload)]

handleStatRelay(self, requestPayload, reg) ==
    IF Len(requestPayload) = 0 THEN [reply |-> <<>>, requests |-> {}, responds |-> 0]
    ELSE LET u == unpackReqStat(requestPayload[2])
             l == getLocalStatResp(u.reqStat, reg)
         IN  IF u.err
             THEN [reply    |-> respondStatErr(requestPayload, u.errType, u.msg),
                   requests |-> {}, responds |-> respondCalls(requestPayload)]
             ELSE IF l.err
             THEN [reply    |-> respondStatErr(requestPayload, l.errType, l.msg),
                   requests |-> {}, responds |-> respondCalls(requestPayload)]
             ELSE [reply |-> respondStat(requestPayload, l.resp), requests |-> {},
                   responds |-> respondCalls(requestPayload)]

(***************************************************************************)
(* handleStat, up to the call of gc.recordResp: [pc, reply, localResp,     *)
(* requests, book, responds, payload].  responds is how many times         *)
(* req.Respond was called, payload is req.RequestPayload as the handler    *)
(* leaves it.  pc is "done" when the handler has returned and              *)
(* "waiting" when it goes on to collect the peers' responses; localResp is *)
(* what getLocalStatResp returned, NoLocal when it was not called.         *)
(***************************************************************************)
NoLocal == [resp |-> NilPtr, err |-> FALSE, errType |-> "NoneError", msg |-> ""]

\* the relay payload written into the request's own buffer, without make and copy
buildRelayPayload_inPlace(requestPayload) ==
    LET changed == [requestPayload EXCEPT ![1] = "statRelayMessage"]
    IN  [relay |-> changed, original |-> changed]

\* make, copy, requestPayload[0] = byte(statRelayMessage): the new slice (relay) and
\* req.RequestPayload as it is afterwards (original)
buildRelayPayload(requestPayload) ==
    [relay    |-> [requestPayload EXCEPT ![1] = "statRelayMessage"],
     original |-> requestPayload]

\* a handleStat that drops a failed local partial and fans out all the same
handleStatBegin_dropLocal(totalMembers, self, request, reg, sendOk) ==
    LET requestPayload == request.payload
        stop(rep, local) == [pc |-> "done", reply |-> rep, localResp |-> local,
                             requests |-> {}, book |-> <<>>,
                             responds |-> respondCalls(requestPayload),
                             payload |-> requestPayload]
    IN  IF Len(requestPayload) = 0 THEN stop(<<>>, NoLocal)
        ELSE LET u == unpackReqStat(requestPayload[2])
                 l == getLocalStatResp(u.reqStat, reg)
                 requestMemberNames ==
                     {m.NodeName : m \in restAliveMembersInSameGroup(totalMembers, self)}
                 built == buildRelayPayload(requestPayload)
                 relay == Request(self, requestPayload[1], request.name \o "_relay",
                                  built.relay, requestMemberNames,
                                  [group |-> localGroupName(totalMembers, self),
                                   mode |-> ""],
                                  request.hops + 1)
             IN  IF u.err
                 THEN stop(respondStatErr(requestPayload, u.errType, u.msg), NoLocal)
                 ELSE IF ~sendOk
                 THEN [stop(respondRetrieveErr(built.original, "InternalServerError",
                                               "send stat relay message failed"), l)
                         EXCEPT !.payload = built.original]
                 ELSE [pc |-> "waiting", reply |-> <<>>,
                       localResp |-> IF l.err THEN [l EXCEPT !.resp = Ptr(ZeroRespStat)]
                                     ELSE l,
                       requests |-> {relay},
                       book |-> [name \in requestMemberNames |-> <<>>],
                       responds |-> 0,
                       payload |-> built.original]

handleStatBegin(totalMembers, self, request, reg, sendOk) ==
    LET requestPayload == request.payload
        stop(rep, local) == [pc |-> "done", reply |-> rep, localResp |-> local,
                             requests |-> {}, book |-> <<>>,
                             responds |-> respondCalls(requestPayload),
                             payload |-> requestPayload]
    IN  IF Len(requestPayload) = 0 THEN stop(<<>>, NoLocal)
        ELSE LET u == unpackReqStat(requestPayload[2])
                 l == getLocalStatResp(u.reqStat, reg)
                 requestMemberNames ==
                     {m.NodeName : m \in restAliveMembersInSameGroup(totalMembers, self)}
                 built == buildRelayPayload(requestPayload)
                 relay == Request(self, requestPayload[1], request.name \o "_relay",
                                  built.relay, requestMemberNames,
                                  [group |-> localGroupName(totalMembers, self),
                                   mode |-> ""],
                                  request.hops + 1)
             IN  IF u.err
                 THEN stop(respondStatErr(requestPayload, u.errType, u.msg), NoLocal)
                 ELSE IF l.err
                 THEN stop(respondStatErr(requestPayload, l.errType, l.msg), l)
                 ELSE IF ~sendOk
                 THEN [stop(respondRetrieveErr(built.original, "InternalServerError",
                                               "send stat relay message failed"), l)
                         EXCEPT !.payload = built.original]
                 ELSE [pc |-> "waiting", reply |-> <<>>, localResp |-> l,
                       requests |-> {relay},
                       book |-> [name \in requestMemberNames |-> <<>>],
                       responds |-> 0,
                       payload |-> built.original]

(***************************************************************************)
(* handleStat after gc.recordResp returned.  order is the order in which   *)
(* the range over the map membersRespBook yields its keys.                 *)
(***************************************************************************)
RECURSIVE PeerResps(_, _, _)
PeerResps(membersRespBook, order, i) ==
    IF i > Len(order) THEN <<>>
    ELSE LET payload == membersRespBook[order[i]]
         IN  (IF Len(payload) = 0 THEN <<>>
              ELSE IF ~payload[2].decodes \/ payload[2].resp.Err # NoErr THEN <<>>
              ELSE <<payload[2].resp>>)
             \o PeerResps(membersRespBook, order, i + 1)

\* the loop over the book without its "resp.Err != nil" test
RECURSIVE PeerResps_keepErr(_, _, _)
PeerResps_keepErr(membersRespBook, order, i) ==
    IF i > Len(order) THEN <<>>
    ELSE LET payload == membersRespBook[order[i]]
         IN  (IF Len(payload) = 0 THEN <<>>
              ELSE IF ~payload[2].decodes THEN <<>>
              ELSE <<payload[2].resp>>)
             \o PeerResps_keepErr(membersRespBook, order, i + 1)

validRespList_keepErr(local, membersRespBook, order) ==
    <<local.resp.v>> \o PeerResps_keepErr(membersRespBook, order, 1)

\* responses kept in a list, one entry per delivery, in the place of the map
validRespList_perDelivery(local, membersRespBook, order) ==
    <<local.resp.v>> \o
    PeerResps(membersRespBook,
              order \o SelectSeq(order, LAMBDA name : deliveries[name] > 1), 1)

validRespList(local, membersRespBook, order) ==
    <<local.resp.v>> \o PeerResps(membersRespBook, order, 1)

\* the end of handleStat without the return after respondRetrieveErr: it goes on to
\* respondStat(req, ret)
handleStatRespond_noReturn(requestPayload, aggregate) ==
    IF aggregate.panic THEN [pc |-> "panicked", reply |-> <<>>, responds |-> 0]
    ELSE IF ~aggregate.nil
    THEN [pc    |-> "done",
          reply |-> respondRetrieveErr(requestPayload, "InternalServerError",
                                       "aggreate statistics for cluster memebers failed"),
          responds |-> respondCalls(requestPayload) + respondCalls(requestPayload)]
    ELSE [pc |-> "done", reply |-> respondStat(requestPayload, aggregate),
          responds |-> respondCalls(requestPayload)]

\* the response after the combiner returned ret: [pc, reply, responds]
handleStatRespond(requestPayload, aggregate) ==
    IF aggregate.panic THEN [pc |-> "panicked", reply |-> <<>>, responds |-> 0]
    ELSE IF ~aggregate.nil
    THEN [pc    |-> "done",
          reply |-> respondRetrieveErr(requestPayload, "InternalServerError",
                                       "aggreate statistics for cluster memebers failed"),
          responds |-> respondCalls(requestPayload)]
    ELSE [pc |-> "done", reply |-> respondStat(requestPayload, aggregate),
          responds |-> respondCalls(requestPayload)]

---------------------------------------------------------------------------
(* The handlers as steps of the nodes. *)

HandleStat(n, reg, sendOk) ==
    /\ entryPc = "idle"
    /\ \E r \in requests :
          /\ r.payload[1] = "statMessage"
          /\ Reaches(r, n)
          /\ LET b == handleStatBegin(members, n, r, reg, sendOk)
             IN  /\ entryPc' = b.pc
                 /\ entryNode' = n
                 /\ entryReq' = b.payload
                 /\ localResp' = b.localResp
                 /\ book' = b.book
                 /\ deliveries' = [name \in DOMAIN b.book |-> 0]
                 /\ reply' = b.reply
                 /\ responded' = b.responds
                 /\ requests' = requests \cup b.requests
    /\ UNCHANGED <<members, apiVars, handled, validResps, ret, aggVars, valVars>>

\* a peer handles the relay request; its response is recorded in the book
HandleStatRelay(p, reg) ==
    /\ entryPc = "waiting"
    /\ p \notin handled
    /\ \E r \in requests :
          /\ r.payload[1] = "statRelayMessage"
          /\ Reaches(r, p)
          /\ LET h == handleStatRelay(p, r.payload, reg)
             IN  /\ book' = [book EXCEPT ![p] = h.reply]
                 /\ requests' = requests \cup h.requests
    /\ handled' = handled \cup {p}
    /\ deliveries' = [deliveries EXCEPT ![p] = 1]
    /\ UNCHANGED <<members, apiVars, entryPc, entryNode, entryReq, localResp, validResps,
                   ret, reply, responded, aggVars, valVars>>

\* the response recorded for a peer is not what its handler packs
RecordMalformed(p, body) ==
    /\ entryPc = "waiting"
    /\ p \in DOMAIN book
    /\ p \notin handled
    /\ book' = [book EXCEPT ![p] = <<"statRelayMessage", body>>]
    /\ handled' = handled \cup {p}
    /\ deliveries' = [deliveries EXCEPT ![p] = 1]
    /\ UNCHANGED <<members, apiVars, requests, entryPc, entryNode, entryReq, localResp,
                   validResps, ret, reply, responded, aggVars, valVars>>

\* the response of a peer is delivered once more (the transport relays responses):
\* the book is a map keyed by the peer's name and holds one payload for it
DeliverAgain(p) ==
    /\ entryPc = "waiting"
    /\ p \in handled
    /\ deliveries[p] < MaxDeliveries
    /\ deliveries' = [deliveries EXCEPT ![p] = @ + 1]
    /\ UNCHANGED <<members, apiVars, requests, entryPc, entryNode, entryReq, localResp,
                   book, handled, validResps, ret, reply, responded, aggVars, valVars>>

\* gc.recordResp returns (every peer answered, or the deadline came): combine and respond
HandleStatCollect(order) ==
    /\ entryPc = "waiting"
    /\ LET reqStat == entryReq[2].reqStat
           list    == validRespList(localResp, book, order)
           agg     == aggregateStatResponses(reqStat, list)
           r       == handleStatRespond(entryReq, agg)
       IN  /\ validResps' = list
           /\ ret' = agg
           /\ entryPc' = r.pc
           /\ reply' = r.reply
           /\ responded' = responded + r.responds
    /\ UNCHANGED <<members, apiVars, requests, entryNode, entryReq, localResp, book,
                   handled, deliveries, aggVars, valVars>>

---------------------------------------------------------------------------
Init ==
    /\ members \in Snapshots
    /\ apiPc = "idle"
    /\ apiGroup = ""
    /\ apiFilter = "none"
    /\ apiSelect = "none"
    /\ apiResult = NoResult
    /\ requests = {}
    /\ entryPc = "idle"
    /\ entryNode = ""
    /\ entryReq = <<>>
    /\ localResp = NoLocal
    /\ book = <<>>
    /\ handled = {}
    /\ deliveries = <<>>
    /\ validResps = <<>>
    /\ ret = NilPtr
    /\ reply = <<>>
    /\ responded = 0
    /\ aggPc = "off"
    /\ aggReq = EmptyReqStat(1)
    /\ aggIn = <<>>
    /\ aggOut = NilPtr
    /\ valPc = "off"
    /\ valIn = NoValIn
    /\ valOut = NoValOut

Next ==
    \/ \E group \in Groups, filter \in ApiFilters, sendOk \in BOOLEAN :
          IssueStat(group, filter, sendOk)
    \/ IssueStatReceive
    \/ IssueStatTimeout
    \/ IssueStatStop
    \/ \E n \in Nodes, reg \in RegReads, sendOk \in BOOLEAN : HandleStat(n, reg, sendOk)
    \/ \E p \in Nodes, reg \in RegReads : HandleStatRelay(p, reg)
    \/ \E p \in Nodes, body \in MalformedResps : RecordMalformed(p, body)
    \/ \E p \in Nodes : DeliverAgain(p)
    \/ \E order \in Perms(DOMAIN book) : HandleStatCollect(order)

Spec == Init /\ [][Next]_vars

---------------------------------------------------------------------------
(***************************************************************************)
(* The combiner on its own: aggregateStatResponses applied to a request    *)
(* that passed unpackReqStat and to a list of partial responses as         *)
(* handleStat hands them over (none with its error set).                   *)
(***************************************************************************)
AggFilters ==
    ApiFilters \cup
    { [field |-> "FilterPipelineIndicatorValue",
       f |-> Filter("p", "", "THROUGHPUT_RATE_LAST_1MIN_ALL")],
      [field |-> "FilterPipelineIndicatorValue", f |-> Filter("p", "", "EXECUTION_TIME_MAX_ALL")],
      [field |-> "FilterPipelineIndicatorValue", f |-> Filter("p", "", "EXECUTION_TIME_MIN_ALL")],
      [field |-> "FilterPipelineIndicatorValue",
       f |-> Filter("p", "", "EXECUTION_TIME_50_PERCENT_ALL")],
      [field |-> "FilterPluginIndicatorValue", f |-> Filter("p", "q", "EXECUTION_COUNT_ALL")],
      [field |-> "FilterPluginIndicatorValue", f |-> Filter("p", "q", "RECENT_HEADER_COUNT")],
      [field |-> "FilterTaskIndicatorValue",
       f |-> Filter("p", "", "THROUGHPUT_RATE_LAST_1MIN_ALL")],
      [field |-> "FilterTaskIndicatorValue", f |-> Filter("p", "", "WAIT_QUEUE_LENGTH")],
      [field |-> "FilterPipelineIndicatorValue",
       f |-> Filter("p", "", "EXECUTION_COUNT_SUCCESS")] }

AggReqs ==
    { req \in { [EmptyReqStat(1) EXCEPT ![a.field] = a.f] :
                  a \in {x \in AggFilters : x.field \in FilterFieldSet} } :
        ~unpackReqStat(ReqBody(req)).err }

NamesPool ==
    { NamesBlob(<<>>), NamesBlob(<<NameA>>), NamesBlob(<<NameA, NameC>>),
      NamesBlob(<<NameB, NameA>>), NamesBlob(<<NameAB, NameB>>),
      NamesBlob(<<NameC, NameC>>), ValueBlob(IntNum(1)), NilBlob, BadBlob }

ValuePool ==
    { ValueBlob(IntNum(1)), ValueBlob(IntNum(-1)), ValueBlob(IntNum(Pow2(MantBits) + 1)),
      ValueBlob(IntNum(MaxInt64)), ValueBlob(IntNum(MaxInt64 + 1)),
      ValueBlob(IntNum(MaxUint64)), ValueBlob(Num(3)), ValueBlob(StrVal(1)),
      ValueBlob(Null), NilBlob, BadBlob }

DescPool ==
    { DescBlob(StrVal(0)), DescBlob(StrVal(1)), DescBlob(StrVal(2)), DescBlob(Null),
      NilBlob, BadBlob }

PartialsFor(req) ==
    LET facet == FacetOf(FirstSet(req, 1))
    IN  CASE facet = "Names" -> {RespStat(b, NilBlob, NilBlob, NoErr) : b \in NamesPool}
          [] facet = "Value" -> {RespStat(NilBlob, b, NilBlob, NoErr) : b \in ValuePool}
          [] facet = "Desc"  -> {RespStat(NilBlob, NilBlob, b, NoErr) : b \in DescPool}

SeqsUpTo(S, n) == UNION {[1..k -> S] : k \in 0..n}

InitAgg ==
    /\ members = [i \in 1..Len(NodeSeq) |-> Member(NodeSeq[i], "g1", "Read", "MemberAlive")]
    /\ apiPc = "idle"
    /\ apiGroup = ""
    /\ apiFilter = "none"
    /\ apiSelect = "none"
    /\ apiResult = NoResult
    /\ requests = {}
    /\ entryPc = "idle"
    /\ entryNode = ""
    /\ entryReq = <<>>
    /\ localResp = NoLocal
    /\ book = <<>>
    /\ handled = {}
    /\ deliveries = <<>>
    /\ validResps = <<>>
    /\ ret = NilPtr
    /\ reply = <<>>
    /\ responded = 0
    /\ aggPc = "ready"
    /\ aggReq \in AggReqs
    /\ aggIn \in SeqsUpTo(PartialsFor(aggReq), MaxResps)
    /\ aggOut = NilPtr
    /\ valPc = "off"
    /\ valIn = NoValIn
    /\ valOut = NoValOut

Aggregate ==
    /\ aggPc = "ready"
    /\ aggOut' = aggregateStatResponses(aggReq, aggIn)
    /\ aggPc' = "done"
    /\ UNCHANGED <<members, apiVars, requests, entryVars, aggReq, aggIn, valVars>>

NextAgg == Aggregate

SpecAgg == InitAgg /\ [][NextAgg]_vars

---------------------------------------------------------------------------
(***************************************************************************)
(* Properties of the protocol (Spec).                                      *)
(***************************************************************************)
\* handleStat went through the combiner (validRespList always holds the local partial)
CollectDone == Len(validResps) > 0

ReplyIsError(payload) ==
    Len(payload) = 2 /\ payload[2].decodes /\ payload[2].resp.Err # NoErr

\* the peers whose recorded response unpacks and carries no error
GoodPeers ==
    {p \in DOMAIN book : Len(book[p]) = 2 /\ book[p][2].decodes
                         /\ book[p][2].resp.Err = NoErr}

\* the peers whose recorded response does not unpack or carries an error
FailingPeers ==
    {p \in DOMAIN book : Len(book[p]) = 2
                         /\ (~book[p][2].decodes \/ book[p][2].resp.Err # NoErr)}

\* the local partial followed by the partials of the good peers, in the given order
Remaining(order) ==
    <<localResp.resp.v>> \o [i \in 1..Len(order) |-> book[order[i]][2].resp]

RelayRequests == {r \in requests : r.by = entryNode /\ r.payload[1] = "statRelayMessage"}

AliveIn(group) == {i \in 1..Len(members) : InGroupAlive(members[i], group)}

(* C1: at the end of the entry handler the reply is an InternalServerError *)
(* if and only if the combiner returned no aggregate, and whenever the     *)
(* combiner returned an aggregate the reply is that aggregate, as a        *)
(* success.                                                                *)
ClaimC1_ErrorIffNoAggregate ==
    CollectDone =>
        /\ (ReplyIsError(reply) <=> ret.nil)
        /\ (~ret.nil => reply = <<entryReq[1], RespBody(ret.v)>>)

(* C2: handling a StatRelay message issues no cluster request: every       *)
(* request was issued by the API caller or by the entry node while it      *)
(* handled the Stat message, and no chain of requests is longer than two   *)
(* hops.                                                                   *)
C2_RelayNeverRequests ==
    \A r \in requests :
        /\ r.handling # "statRelayMessage"
        /\ r.hops <= 2
        /\ (r.by = "api" => r.payload[1] = "statMessage" /\ r.hops = 1)
        /\ (r.by # "api" => /\ r.by = entryNode
                            /\ r.handling = "statMessage"
                            /\ r.payload[1] = "statRelayMessage")

\* a relay handler has resolved the query and its response is in the book
C2_Witness ==
    \E p \in handled : p \in GoodPeers /\ book[p][1] = "statRelayMessage"

(* C3: when the local resolve succeeded, whatever subset of the peers did  *)
(* not reply before the deadline, the entry handler combines the local     *)
(* partial with exactly the partials that arrived and replies with that    *)
(* aggregate, without an error.                                            *)
ClaimC3_RepliesAggregateOfArrived ==
    CollectDone =>
        /\ \E order \in Perms(GoodPeers) : validResps = Remaining(order)
        /\ ret = aggregateStatResponses(entryReq[2].reqStat, validResps)
        /\ (~ret.nil => /\ ~ReplyIsError(reply)
                        /\ reply = <<entryReq[1], RespBody(ret.v)>>)

(* C4: a peer partial whose error is set or whose payload does not unpack  *)
(* contributes nothing: the combiner is given the local partial and the    *)
(* partials of the other peers only, its result is the aggregate of those, *)
(* and the reply is the one the handler gives for those partials alone.    *)
C4_FailingPeersContributeNothing ==
    CollectDone =>
        \E order \in Perms(GoodPeers) :
            LET agg == aggregateStatResponses(entryReq[2].reqStat, Remaining(order))
            IN  /\ validResps = Remaining(order)
                /\ ret = agg
                /\ reply = handleStatRespond(entryReq, agg).reply

\* the combiner ran while one peer's response was unusable and another's was good
C4_Witness == CollectDone /\ FailingPeers # {} /\ GoodPeers # {}

(* C5 as claimed: when the entry node's own local resolve fails, the entry *)
(* handler still fans the query out to the peers.                          *)
ClaimC5_LocalFailureStillFansOut ==
    (entryPc = "done" /\ localResp.err) => RelayRequests # {}

(* C5, amended: when the entry node's own local resolve fails, the entry   *)
(* handler replies with that error (its type and message), sends no relay  *)
(* request and combines nothing.                                           *)
C5_LocalFailureIsReplied ==
    localResp.err =>
        /\ entryPc = "done"
        /\ reply = respondStatErr(entryReq, localResp.errType, localResp.msg)
        /\ RelayRequests = {}
        /\ book = <<>>
        /\ validResps = <<>>
        /\ ret = NilPtr

\* the local resolve failed at an entry node that has alive peers in its group
C5_Witness ==
    /\ localResp.err
    /\ entryPc = "done"
    /\ restAliveMembersInSameGroup(members, entryNode) # {}

(* C6: whenever the snapshot holds an alive read-mode member of the        *)
(* requested group the selector returns a read-mode member; a write-mode   *)
(* member is returned only when the group has alive members, none of them  *)
(* in read mode.                                                           *)
ClaimC6_ReadModePreferred ==
    \A r \in requests :
        r.by = "api" =>
            LET chosen   == MemberOf(members, CHOOSE n \in r.targets : TRUE)
                aliveRead == {i \in AliveIn(apiGroup) : members[i].mode = "Read"}
            IN  /\ (aliveRead # {} => chosen.mode = "Read")
                /\ (chosen.mode # "Read" => AliveIn(apiGroup) # {} /\ aliveRead = {})

---------------------------------------------------------------------------
(***************************************************************************)
(* Properties of the combiner (SpecAgg).                                   *)
(***************************************************************************)
AggField == FirstSet(aggReq, 1)

AggFacet == FacetOf(AggField)

\* the catalog entry of the query's scope for the query's indicator, "nil" if none
AggReducer ==
    LET name == aggReq[AggField].IndicatorName
    IN  CASE ScopeOf(AggField) = "Pipeline" -> Lookup(pipelineIndicatorAggregateMap, name)
          [] ScopeOf(AggField) = "Plugin"   -> Lookup(pluginIndicatorAggregateMap, name)
          [] ScopeOf(AggField) = "Task"     -> Lookup(taskIndicatorAggregateMap, name)

Permuted(list, perm) == [i \in 1..Len(list) |-> list[perm[i]]]

\* the combiner gives the same result for every order of the partials
OrderIndependent ==
    \A perm \in Perms(1..Len(aggIn)) :
        aggregateStatResponses(aggReq, Permuted(aggIn, perm)) = aggOut

NamesOf(list) == UNION {{list[i].Names.names[j] : j \in 1..Len(list[i].Names.names)} :
                          i \in 1..Len(list)}

(* C8: for a Names query and a non-empty list of well-formed partials the  *)
(* aggregate names list is sorted lexicographically, has no duplicate and  *)
(* is, as a set, the union of the partials' names, whatever the order of   *)
(* the partials.                                                           *)
C8_NamesSortedUnion ==
    (/\ aggPc = "done"
     /\ AggFacet = "Names"
     /\ Len(aggIn) > 0
     /\ \A i \in 1..Len(aggIn) : aggIn[i].Names.k = "names") =>
        /\ ~aggOut.nil
        /\ aggOut.v.Names.k = "names"
        /\ LET out == aggOut.v.Names.names
           IN  /\ \A i, j \in 1..Len(out) : i < j => LexLess(out[i], out[j])
               /\ {out[i] : i \in 1..Len(out)} = NamesOf(aggIn)
        /\ OrderIndependent

\* the partials ["a","c"] and ["b","a"] were combined into ["a","b","c"]
C8_Witness ==
    /\ aggPc = "done"
    /\ AggFacet = "Names"
    /\ Len(aggIn) = 2
    /\ aggIn[1].Names = NamesBlob(<<NameA, NameC>>)
    /\ aggIn[2].Names = NamesBlob(<<NameB, NameA>>)
    /\ aggOut.v.Names = NamesBlob(<<NameA, NameB, NameC>>)

RECURSIVE SumSeq(_)
SumSeq(q) == IF Len(q) = 0 THEN 0 ELSE q[1] + SumSeq(Tail(q))

\* the partial carries an integer that the type holds
CarriesInt(r, lo, hi) ==
    /\ r.Value.k = "value"
    /\ r.Value.val.t = "num"
    /\ r.Value.val.h % 2 = 0
    /\ r.Value.val.h \div 2 >= lo
    /\ r.Value.val.h \div 2 <= hi

CarriesInt64(r) == CarriesInt(r, MinInt64, MaxInt64)

CarriesUint64(r) == CarriesInt(r, 0, MaxUint64)

IntsOf(list) == [i \in 1..Len(list) |-> list[i].Value.val.h \div 2]

(* C9: for a Value query on an indicator whose reducer is sum, the         *)
(* aggregate is the sum of the values of the combined partials, whatever   *)
(* their order, int64 and uint64 sums wrapping modulo 2^IntBits.           *)
ClaimC9_SumOfValues ==
    (aggPc = "done" /\ AggFacet = "Value"
     /\ AggReducer \in {"sumInt64", "sumUint64", "sumFloat64"}) =>
        /\ OrderIndependent
        /\ (AggReducer = "sumInt64" /\ SelectSeq(aggIn, CarriesInt64) # <<>>) =>
              aggOut = Ptr(RespStat(NilBlob,
                                    ScalarBlob(IntNum(WrapI(SumSeq(
                                        IntsOf(SelectSeq(aggIn, CarriesInt64)))))),
                                    NilBlob, NoErr))
        /\ (AggReducer = "sumUint64" /\ SelectSeq(aggIn, CarriesUint64) # <<>>) =>
              aggOut = Ptr(RespStat(NilBlob,
                                    ScalarBlob(IntNum(WrapU(SumSeq(
                                        IntsOf(SelectSeq(aggIn, CarriesUint64)))))),
                                    NilBlob, NoErr))

\* the partial carries a value that decodes and is not null
CarriesValue(r) == r.Value.k = "value" /\ r.Value.val.t \in {"num", "str"}

(* C10: for a Value query on an indicator absent from the catalog of the   *)
(* query's scope the aggregate is a list with exactly one entry per        *)
(* partial that carries a decodable value, in the order of the partials,   *)
(* and partials without one add no entry.                                  *)
C10_UnknownIndicatorList ==
    (aggPc = "done" /\ AggFacet = "Value" /\ AggReducer = "nil") =>
        /\ ~aggOut.nil
        /\ aggOut.v.Value.k = "list"
        /\ LET carrying == SelectSeq(aggIn, CarriesValue)
               list     == aggOut.v.Value.list
           IN  /\ Len(list) = Len(carrying)
               /\ \A i \in 1..Len(list) : list[i] = DecodeAny(carrying[i].Value.val)

\* three partials, one of them without a decodable value, gave a list of two entries
C10_Witness ==
    /\ aggPc = "done"
    /\ AggFacet = "Value"
    /\ AggReducer = "nil"
    /\ Len(aggIn) = 3
    /\ Len(SelectSeq(aggIn, CarriesValue)) = 2
    /\ Len(aggOut.v.Value.list) = 2

\* the description of the partial decodes to a string that is not empty
HasNonEmptyDesc(r) == r.Desc.k = "desc" /\ r.Desc.val.t = "str" /\ r.Desc.val.h # 0

(* C11: for a Desc query the combiner returns the description of the first *)
(* partial, in the order of the list, whose description decodes to a       *)
(* non-empty string; partials whose description is the empty string are    *)
(* skipped, and when no partial has a non-empty description the result is  *)
(* nil.                                                                    *)
ClaimC11_FirstNonEmptyDesc ==
    (aggPc = "done" /\ AggFacet = "Desc") =>
        LET having == SelectSeq(aggIn, HasNonEmptyDesc)
        IN  IF having = <<>> THEN aggOut = NilPtr
            ELSE aggOut = Ptr(RespStat(NilBlob, NilBlob, having[1].Desc, NoErr))

(* C12: the aggregate is a function of the set of partials that arrived:   *)
(* whatever order the response book is ranged over, the combiner is handed *)
(* the peers' partials in one fixed order and returns the same aggregate.  *)
ClaimC12_AggregateIndependentOfBookOrder ==
    CollectDone =>
        \A order \in Perms(GoodPeers) :
            aggregateStatResponses(entryReq[2].reqStat, Remaining(order)) = ret

---------------------------------------------------------------------------
(***************************************************************************)
(* One handler call on its own: handleStat (in two steps: up to            *)
(* gc.recordResp, and from its return on) or handleStatRelay, applied to a *)
(* request event whose payload is whatever a cluster member may send:      *)
(* empty, not a ReqStat, a ReqStat with no filter, with one filter         *)
(* (complete or lacking a selector) or with two.                           *)
(***************************************************************************)
\* filters that lack a selector their case of unpackReqStat checks
MissingSelectorFilters ==
    { [field |-> "FilterPipelineIndicatorNames", f |-> Filter("", "", "")],
      [field |-> "FilterPipelineIndicatorDesc", f |-> Filter("p", "", "")],
      [field |-> "FilterPluginIndicatorNames", f |-> Filter("p", "", "")],
      [field |-> "FilterPluginIndicatorValue", f |-> Filter("p", "", "WAIT_QUEUE_LENGTH")],
      [field |-> "FilterPluginIndicatorDesc", f |-> Filter("p", "q", "")],
      [field |-> "FilterTaskIndicatorValue", f |-> Filter("p", "", "")],
      [field |-> "FilterTaskIndicatorDesc", f |-> Filter("", "", "EXECUTION_COUNT_ALL")] }

SupportedFilters == {a \in ApiFilters : a.field \in FilterFieldSet}

OneFilterReqs ==
    { [EmptyReqStat(1) EXCEPT ![a.field] = a.f] :
        a \in SupportedFilters \cup MissingSelectorFilters }

TwoFilterReqs ==
    { [EmptyReqStat(1) EXCEPT ![ab[1].field] = ab[1].f, ![ab[2].field] = ab[2].f] :
        ab \in {x \in SupportedFilters \X SupportedFilters : x[1].field # x[2].field} }

\* bytes that cluster.Unpack does not turn into a ReqStat
GarbledReq == [decodes |-> FALSE, reqStat |-> EmptyReqStat(1)]

HandlePayloads(kind) ==
    {<<>>} \cup
    { <<kind, b>> :
        b \in {GarbledReq} \cup
              {ReqBody(r) : r \in {EmptyReqStat(1)} \cup OneFilterReqs \cup TwoFilterReqs} }

HandleInputs ==
    UNION { [handler : {h[1]}, payload : HandlePayloads(h[2]), self : {"n1"},
             reg : RegReads, sendOk : BOOLEAN] :
            h \in { <<"handleStat", "statMessage">>,
                    <<"handleStatRelay", "statRelayMessage">> } }

InitHandle ==
    /\ members = [i \in 1..Len(NodeSeq) |-> Member(NodeSeq[i], "g1", "Read", "MemberAlive")]
    /\ apiPc = "idle"
    /\ apiGroup = ""
    /\ apiFilter = "none"
    /\ apiSelect = "none"
    /\ apiResult = NoResult
    /\ requests = {}
    /\ entryPc = "idle"
    /\ entryNode = ""
    /\ entryReq = <<>>
    /\ localResp = NoLocal
    /\ book = <<>>
    /\ handled = {}
    /\ deliveries = <<>>
    /\ validResps = <<>>
    /\ ret = NilPtr
    /\ reply = <<>>
    /\ responded = 0
    /\ aggPc = "off"
    /\ aggReq = EmptyReqStat(1)
    /\ aggIn = <<>>
    /\ aggOut = NilPtr
    /\ valPc = "ready"
    /\ valIn \in HandleInputs
    /\ valOut = NoValOut

\* handleStat is called with the request event: [pc, reply, localResp, requests, book]
CallHandleStat ==
    /\ valPc = "ready"
    /\ valIn.handler = "handleStat"
    /\ valOut' = handleStatBegin(members, valIn.self,
                                 Request("api", "none", "stat", valIn.payload,
                                         {valIn.self}, [group |-> "g1", mode |-> "Read"], 1),
                                 valIn.reg, valIn.sendOk)
    /\ valPc' = "done"
    /\ UNCHANGED <<members, apiVars, requests, entryVars, aggVars, valIn>>

\* handleStatRelay is called with the request event: [reply, requests]
CallHandleStatRelay ==
    /\ valPc = "ready"
    /\ valIn.handler = "handleStatRelay"
    /\ valOut' = handleStatRelay(valIn.self, valIn.payload, valIn.reg)
    /\ valPc' = "done"
    /\ UNCHANGED <<members, apiVars, requests, entryVars, aggVars, valIn>>

\* what gc.recordResp may have recorded for a peer when it returns: nothing, or what
\* the peer's handleStatRelay responded to the relay request
RecordedPayloads(relayRequests) ==
    {<<>>} \cup
    { handleStatRelay(p, r.payload, reg).reply :
        <<p, r, reg>> \in (Nodes \X relayRequests \X RegReads) }

\* gc.recordResp returned with some book bk, which the range statement goes through
\* in some order: handleStat combines and responds
CallHandleStatCollect ==
    /\ valPc = "done"
    /\ valIn.handler = "handleStat"
    /\ valOut.pc = "waiting"
    /\ \E bk \in [DOMAIN valOut.book -> RecordedPayloads(valOut.requests)] :
          \E order \in Perms(DOMAIN bk) :
             LET reqStat == unpackReqStat(valIn.payload[2]).reqStat
                 list    == validRespList(valOut.localResp, bk, order)
                 agg     == aggregateStatResponses(reqStat, list)
                 r       == handleStatRespond(valOut.payload, agg)
             IN  valOut' = [pc |-> r.pc, reply |-> r.reply, localResp |-> valOut.localResp,
                            requests |-> valOut.requests, book |-> bk,
                            responds |-> valOut.responds + r.responds, ret |-> agg,
                            payload |-> valOut.payload]
    /\ valPc' = "collected"
    /\ UNCHANGED <<members, apiVars, requests, entryVars, aggVars, valIn>>

NextHandle ==
    \/ CallHandleStat
    \/ CallHandleStatRelay
    \/ CallHandleStatCollect

SpecHandle == InitHandle /\ [][NextHandle]_vars

---------------------------------------------------------------------------
(***************************************************************************)
(* Properties of one handler call (SpecHandle).                            *)
(***************************************************************************)
\* the handler returned from a call whose payload unpacks into a ReqStat
Unpacked == valPc = "done" /\ Len(valIn.payload) = 2 /\ valIn.payload[2].decodes

\* the filter fields that are set in the request the handler was given
SetFilters == {f \in FilterFieldSet : ~valIn.payload[2].reqStat[f].nil}

\* the filter lacks a selector its variant requires: the pipeline name, the plugin
\* name for the plugin scope, the indicator name for a Value or Desc facet
LacksSelector(field, f) ==
    \/ f.PipelineName = ""
    \/ (ScopeOf(field) = "Plugin" /\ f.PluginName = "")
    \/ (FacetOf(field) \in {"Value", "Desc"} /\ f.IndicatorName = "")

\* the request holds exactly one filter, and that filter lacks a required selector
OneFilterLackingSelector ==
    /\ Unpacked
    /\ \E field \in SetFilters :
          /\ SetFilters = {field}
          /\ LacksSelector(field, valIn.payload[2].reqStat[field])

\* the reply is an error response of the given kind
ReplyErrorKind(payload, kind) ==
    Len(payload) = 2 /\ payload[2].decodes /\ payload[2].resp.Err.Type = kind

ClaimC14_ExactlyOneFilterOrRejected ==
    (Unpacked /\ Cardinality(SetFilters) # 1) =>
        ReplyErrorKind(valOut.reply, "WrongMessageFormatError")

---------------------------------------------------------------------------
(***************************************************************************)
(* Further properties of the protocol (Spec).                              *)
(***************************************************************************)
(* C15: at the API caller, when the select takes the stop case the call    *)
(* returns the IssueMemberGone error without unpacking any response, and   *)
(* when it finds the response channel closed without a reply it returns    *)
(* the TimeoutError; in both cases it returns no result bytes.             *)
C15_StopAndTimeoutReturnNoResult ==
    /\ apiSelect = "stop" =>
          /\ apiPc = "done"
          /\ apiResult.ret = NilBlob
          /\ apiResult.err =
               newClusterError("the member gone during issuing statistics aggregation",
                               "IssueMemberGoneError")
    /\ apiSelect = "closed" =>
          /\ apiPc = "done"
          /\ apiResult.ret = NilBlob
          /\ apiResult.err = newClusterError("issue statistics aggregation timeout",
                                             "TimeoutError")

\* the stop signal was taken although the entry node's reply had been sent
C15_Witness == apiSelect = "stop" /\ reply # <<>> /\ apiPc = "done"

(***************************************************************************)
(* The protocol with the fairness its waits have: the future of a cluster  *)
(* request is closed when the request's Timeout has passed, so the closed  *)
(* case of issueStat's select and the return of gc.recordResp are taken    *)
(* once they stay possible.  The stop signal and the peers' replies may    *)
(* never come.                                                             *)
(***************************************************************************)
\* the snapshots the waits are followed in: an entry node with one peer, and with two
LiveSnapshots ==
    { <<Member("n1", "g1", "Read", "MemberAlive"), Member("n2", "g1", "Write", "MemberAlive"),
        Member("n3", "g2", "Read", "MemberAlive")>>,
      <<Member("n1", "g1", "Write", "MemberAlive"), Member("n2", "g1", "Read", "MemberFailed"),
        Member("n3", "g1", "Read", "MemberAlive")>> }

LiveInit == Init /\ members \in LiveSnapshots

\* gc.recordResp returns and handleStat goes on, whatever order the book is ranged in
HandleStatCollectAny == \E order \in Perms(DOMAIN book) : HandleStatCollect(order)

(***************************************************************************)
(* Weak fairness of both steps.  HandleStatCollectAny is enabled exactly   *)
(* while entryPc = "waiting", and its weak fairness is written out with    *)
(* that state predicate in the place of ENABLED.                           *)
(***************************************************************************)
LiveSpec ==
    /\ LiveInit
    /\ [][Next]_vars
    /\ WF_vars(IssueStatTimeout)
    /\ ([]<>(entryPc # "waiting") \/ []<><<HandleStatCollectAny>>_vars)

ClaimC17_ChosenIsAliveInGroup ==
    \A r \in requests :
        r.by = "api" =>
            \A n \in r.targets :
                /\ \E i \in 1..Len(members) : members[i].NodeName = n
                /\ InGroupAlive(MemberOf(members, n), apiGroup)

\* the peers named in the fan-out request of the entry node
NamedPeers == UNION {r.targets : r \in RelayRequests}

(* C18: the input of the combiner holds the entry node's local partial     *)
(* exactly once, as its first element, and after it at most one partial    *)
(* per peer named in the fan-out request, each the one the book holds for  *)
(* that peer, also when a peer's response was delivered more than once; so *)
(* the list has at most 1 + (number of named peers) partials.              *)
C18_OnePartialPerMember ==
    CollectDone =>
        /\ validResps[1] = localResp.resp.v
        /\ Len(validResps) <= 1 + Cardinality(NamedPeers)
        /\ \E from \in [2..Len(validResps) -> NamedPeers] :
              /\ \A i, j \in 2..Len(validResps) : i # j => from[i] # from[j]
              /\ \A i \in 2..Len(validResps) :
                    /\ Len(book[from[i]]) = 2
                    /\ validResps[i] = book[from[i]][2].resp

\* the combiner ran after the good response of a peer had been delivered twice
C18_Witness ==
    /\ CollectDone
    /\ \E p \in GoodPeers : deliveries[p] > 1
    /\ Len(validResps) > 1

---------------------------------------------------------------------------
(***************************************************************************)
(* The replies of one handler call (SpecHandle).                           *)
(***************************************************************************)
\* the handler has ended: handleStatRelay returned, handleStat returned early or
\* after it combined (or its goroutine died of a run-time panic)
HandlerEnded ==
    \/ valPc = "collected"
    \/ valPc = "done" /\ valIn.handler = "handleStatRelay"
    \/ valPc = "done" /\ valIn.handler = "handleStat" /\ valOut.pc # "waiting"

SetFields(resp) ==
    { f \in {"Names", "Value", "Desc"} : resp[f] # NilBlob } \cup
    (IF resp.Err # NoErr THEN {"Err"} ELSE {})

\* the handler has sent a response
Responded == valPc \in {"done", "collected"} /\ valOut.reply # <<>>

\* the request holds exactly one filter
OneFilter ==
    Len(valIn.payload) = 2 /\ valIn.payload[2].decodes /\ Cardinality(SetFilters) = 1

\* C20 (as claimed): every response sent by handleStat or handleStatRelay holds
\* exactly one of names, value, desc or error, and when it is not an error the
\* field that is set is the one of the query's facet
ClaimC20_ResponseHoldsExactlyOneField ==
    Responded =>
        /\ valOut.reply[2].decodes
        /\ Cardinality(SetFields(valOut.reply[2].resp)) = 1
        /\ (OneFilter /\ valOut.reply[2].resp.Err = NoErr) =>
              \A field \in SetFilters : SetFields(valOut.reply[2].resp) = {FacetOf(field)}

\* the part of C20 about handleStatRelay
C20_HoldsForRelay ==
    valIn.handler = "handleStatRelay" => ClaimC20_ResponseHoldsExactlyOneField

\* the part of C20 about one-filter queries
C20_HoldsForOneFilter ==
    OneFilter => ClaimC20_ResponseHoldsExactlyOneField

---------------------------------------------------------------------------
(***************************************************************************)
(* issueStat on its own (SpecIssue): the member it sent the request to     *)
(* responds with whatever payload a cluster member may respond with.       *)
(***************************************************************************)
\* the RespStat values a response may carry: every combination of fields
IssueRespStats ==
    { RespStat(n, v, d, e) :
        n \in {NilBlob, NamesBlob(<<NameA>>)},
        v \in {NilBlob, ValueBlob(IntNum(3))},
        d \in {NilBlob, DescBlob(StrVal(1))},
        e \in {NoErr, newClusterError("pipeline p statistics not found",
                                      "PipelineStatNotFoundError")} }

\* the payloads of a member response: empty, bytes that do not unpack, a RespStat
IssueResponses ==
    {<<>>, <<"statMessage", GarbledResp>>} \cup
    { <<"statMessage", RespBody(r)>> : r \in IssueRespStats }

\* case r, ok := <-future.Response() with ok, r.Payload being payload
IssueStatReceiveAny(payload) ==
    /\ apiPc = "waiting"
    /\ apiPc' = "done"
    /\ apiSelect' = "response"
    /\ reply' = payload
    /\ apiResult' = issueStatResult(apiFilter, payload)
    /\ UNCHANGED <<members, apiGroup, apiFilter, requests, entryPc, entryNode, entryReq,
                   localResp, book, handled, deliveries, validResps, ret, responded,
                   aggVars, valVars>>

NextIssue ==
    \/ \E group \in Groups, filter \in ApiFilters, sendOk \in BOOLEAN :
          IssueStat(group, filter, sendOk)
    \/ \E payload \in IssueResponses : IssueStatReceiveAny(payload)
    \/ IssueStatTimeout
    \/ IssueStatStop

SpecIssue == LiveInit /\ [][NextIssue]_vars

\* issueStat returned after it received a response that unpacks
GotResponse ==
    apiPc = "done" /\ apiSelect = "response" /\ Len(reply) = 2 /\ reply[2].decodes

\* C21: issueStat returns exactly one of (non-empty result bytes, no error) or (no
\* result, an error); a result is returned only when the response carries no error,
\* and it is the names, value or desc field of the response that matches the facet
\* of the filter passed in; an empty field for that facet is reported as
\* InternalServerError
C21_ResultXorError ==
    apiPc = "done" =>
        /\ (apiResult.ret = NilBlob) # (apiResult.err = NoErr)
        /\ apiResult.ret # NilBlob =>
              /\ GotResponse
              /\ reply[2].resp.Err = NoErr
              /\ apiResult.ret = reply[2].resp[FacetOf(apiFilter)]
        /\ (GotResponse /\ reply[2].resp.Err # NoErr) => apiResult.err = reply[2].resp.Err
        /\ (GotResponse /\ reply[2].resp.Err = NoErr
               /\ reply[2].resp[FacetOf(apiFilter)] = NilBlob) =>
              apiResult.err.Type = "InternalServerError"

\* a Value query got a response without an error that holds names and a value: the
\* value is returned
C21_Witness ==
    /\ GotResponse
    /\ FacetOf(apiFilter) = "Value"
    /\ reply[2].resp.Err = NoErr
    /\ reply[2].resp.Names # NilBlob
    /\ apiResult = [ret |-> ValueBlob(IntNum(3)), err |-> NoErr]

---------------------------------------------------------------------------
(***************************************************************************)
(* Further properties of the combiner (SpecAgg).                           *)
(***************************************************************************)
\* the catalog table of a scope
ScopeTable(scope) ==
    CASE scope = "Pipeline" -> pipelineIndicatorAggregateMap
      [] scope = "Plugin"   -> pluginIndicatorAggregateMap
      [] scope = "Task"     -> taskIndicatorAggregateMap

\* the combiner returned from a Value query
ValueQueryDone == aggPc = "done" /\ FacetOf(FirstSet(aggReq, 1)) = "Value"

\* C22: for a Value query the reducer is taken only from the catalog table of the
\* query's own scope: a name that table lacks yields the pass-through list even when
\* another scope's table has it, and a name present in several tables uses the
\* reducer of the query's scope (EXECUTION_COUNT_ALL: sumInt64 for pipeline and
\* plugin scope, sumUint64 for task scope)
C22_ReducerOfOwnScope ==
    ValueQueryDone =>
        LET field == FirstSet(aggReq, 1)
            name  == aggReq[field].IndicatorName
            agg   == Lookup(ScopeTable(ScopeOf(field)), name)
            vals  == IndicatorValues(aggIn)
            list  == Ptr(RespStat(NilBlob, ListBlob(vals), NilBlob, NoErr))
        IN  /\ agg = "nil" => aggOut = list
            /\ (agg # "nil" /\ Len(vals) = 0) => aggOut = NilPtr
            /\ (agg # "nil" /\ Len(vals) > 0) =>
                  aggOut = IF Apply(agg, vals) = NilBytes THEN NilPtr
                           ELSE Ptr(RespStat(NilBlob, BlobOf(Apply(agg, vals)),
                                             NilBlob, NoErr))
            /\ name = "EXECUTION_COUNT_ALL" =>
                  agg = IF ScopeOf(field) = "Task" THEN "sumUint64" ELSE "sumInt64"

\* a task query for EXECUTION_COUNT_ALL over the values 1 and -1: the uint64 sum
\* skips -1 and gives 1, where the int64 sum of the other scopes would give 0
C22_Witness ==
    /\ ValueQueryDone
    /\ FirstSet(aggReq, 1) = "FilterTaskIndicatorValue"
    /\ aggReq.FilterTaskIndicatorValue.IndicatorName = "EXECUTION_COUNT_ALL"
    /\ aggIn = <<RespStat(NilBlob, ValueBlob(IntNum(1)), NilBlob, NoErr),
                 RespStat(NilBlob, ValueBlob(IntNum(-1)), NilBlob, NoErr)>>
    /\ aggOut = Ptr(RespStat(NilBlob, ScalarBlob(IntNum(1)), NilBlob, NoErr))

\* a task query for a name only the plugin table has: the pass-through list
C22_WitnessOtherScope ==
    /\ ValueQueryDone
    /\ FirstSet(aggReq, 1) = "FilterTaskIndicatorValue"
    /\ aggReq.FilterTaskIndicatorValue.IndicatorName = "WAIT_QUEUE_LENGTH"
    /\ Len(aggIn) = 2
    /\ aggOut.v.Value.k = "list"
    /\ Len(aggOut.v.Value.list) = 2

---------------------------------------------------------------------------
(***************************************************************************)
(* A numeric reducer on its own (SpecReduce): numericMax, numericMin,      *)
(* numericSum or numericAvg applied to a type and a list of JSON texts.    *)
(***************************************************************************)
\* the JSON texts a reducer may be handed: integers up to the ends of both ranges, a
\* fraction, a string, null, bytes that are not JSON
ReduceTexts ==
    { IntNum(0), IntNum(1), IntNum(-1), IntNum(2), IntNum(MaxInt64), IntNum(MinInt64),
      IntNum(MaxUint64), Num(3), StrVal(1), Null, BadText }

ReduceFns == {"numericMax", "numericMin", "numericSum", "numericAvg"}

ReduceInputs ==
    [fn : ReduceFns, typ : NumTypes, values : SeqsUpTo(ReduceTexts, MaxResps)]

InitReduce ==
    /\ members = [i \in 1..Len(NodeSeq) |-> Member(NodeSeq[i], "g1", "Read", "MemberAlive")]
    /\ apiPc = "idle"
    /\ apiGroup = ""
    /\ apiFilter = "none"
    /\ apiSelect = "none"
    /\ apiResult = NoResult
    /\ requests = {}
    /\ entryPc = "idle"
    /\ entryNode = ""
    /\ entryReq = <<>>
    /\ localResp = NoLocal
    /\ book = <<>>
    /\ handled = {}
    /\ deliveries = <<>>
    /\ validResps = <<>>
    /\ ret = NilPtr
    /\ reply = <<>>
    /\ responded = 0
    /\ aggPc = "off"
    /\ aggReq = EmptyReqStat(1)
    /\ aggIn = <<>>
    /\ aggOut = NilPtr
    /\ valPc = "ready"
    /\ valIn \in ReduceInputs
    /\ valOut = NilBytes

\* the reducer is called
Reduce ==
    /\ valPc = "ready"
    /\ valOut' = CASE valIn.fn = "numericMax" -> numericMax(valIn.typ, valIn.values)
                   [] valIn.fn = "numericMin" -> numericMin(valIn.typ, valIn.values)
                   [] valIn.fn = "numericSum" -> numericSum(valIn.typ, valIn.values)
                   [] valIn.fn = "numericAvg" -> numericAvg(valIn.typ, valIn.values)
    /\ valPc' = "done"
    /\ UNCHANGED <<members, apiVars, requests, entryVars, aggVars, valIn>>

NextReduce == Reduce

SpecReduce == InitReduce /\ [][NextReduce]_vars

\* the integers the inputs decode to (json.Unmarshal into the type reports no error),
\* in the order of the inputs
RECURSIVE Decoded(_, _)
Decoded(typ, values) ==
    IF Len(values) = 0 THEN <<>>
    ELSE (IF Unmarshal(typ, values[1]).ok THEN <<Unmarshal(typ, values[1]).v>> ELSE <<>>)
         \o Decoded(typ, Tail(values))

SeqRange(q) == {q[i] : i \in 1..Len(q)}

Greatest(S) == CHOOSE x \in S : \A y \in S : y <= x

Least(S) == CHOOSE x \in S : \A y \in S : x <= y

\* C25: for int64 and uint64 inputs the max (min) reducer returns the greatest
\* (least) of the inputs that decode, whatever their order; inputs that fail to
\* decode are skipped; the result is nil if and only if no input decodes, also when
\* a decodable input equals the value the reducer starts from
C25_MaxMinOfDecoded ==
    (valPc = "done" /\ valIn.fn \in {"numericMax", "numericMin"}
     /\ valIn.typ \in {"int64", "uint64"}) =>
        LET D == SeqRange(Decoded(valIn.typ, valIn.values))
        IN  /\ (valOut = NilBytes) <=> (D = {})
            /\ (D # {} /\ valIn.fn = "numericMax") => valOut = IntNum(Greatest(D))
            /\ (D # {} /\ valIn.fn = "numericMin") => valOut = IntNum(Least(D))
            /\ \A perm \in Perms(1..Len(valIn.values)) :
                  LET permuted == [i \in 1..Len(valIn.values) |-> valIn.values[perm[i]]]
                  IN  valOut = IF valIn.fn = "numericMax"
                               THEN numericMax(valIn.typ, permuted)
                               ELSE numericMin(valIn.typ, permuted)

\* the only input of maxInt64 that decodes is the least int64, the value the loop
\* starts from: it is the result
C25_Witness ==
    /\ valPc = "done"
    /\ valIn.fn = "numericMax"
    /\ valIn.typ = "int64"
    /\ valIn.values = <<StrVal(1), IntNum(MinInt64), BadText>>
    /\ valOut = IntNum(MinInt64)

\* the reducer returned from an avg over int64 or uint64
IntAvgDone ==
    valPc = "done" /\ valIn.fn = "numericAvg" /\ valIn.typ \in {"int64", "uint64"}

\* C26 (as claimed): the avg reducer returns the sum of the inputs that decode
\* divided by the count of inputs that decode, the division truncating toward zero
\* for int64 and uint64; inputs that fail to decode are neither added nor counted;
\* on empty input or when no input decodes it returns nil
ClaimC26_AvgIsSumOverCount ==
    IntAvgDone =>
        LET d == Decoded(valIn.typ, valIn.values)
        IN  valOut = IF Len(d) = 0 THEN NilBytes
                     ELSE IntNum(TruncDiv(SumSeq(d), Len(d)))

\* what holds of the code: the sum that is divided is the sum in the type's own
\* arithmetic, which wraps
C26_AvgOfWrappedSum ==
    IntAvgDone =>
        LET d == Decoded(valIn.typ, valIn.values)
            wrapped == IF valIn.typ = "int64" THEN WrapI(SumSeq(d)) ELSE WrapU(SumSeq(d))
        IN  valOut = IF Len(d) = 0 THEN NilBytes
                     ELSE IntNum(TruncDiv(wrapped, Len(d)))

\* C26 holds whenever the sum of the decoded inputs is inside the type's range
C26_HoldsWithoutOverflow ==
    IntAvgDone =>
        LET d == Decoded(valIn.typ, valIn.values)
            inRange == IF valIn.typ = "int64"
                       THEN SumSeq(d) >= MinInt64 /\ SumSeq(d) <= MaxInt64
                       ELSE SumSeq(d) <= MaxUint64
        IN  inRange => valOut = IF Len(d) = 0 THEN NilBytes
                                ELSE IntNum(TruncDiv(SumSeq(d), Len(d)))

---------------------------------------------------------------------------
(***************************************************************************)
(* The payloads of one handler call (SpecHandle).                          *)
(***************************************************************************)
\* handleStat was called
HandleStatCalled == valIn.handler = "handleStat" /\ valPc \in {"done", "collected"}

\* C23: the relay payload built by handleStat equals the request payload byte for
\* byte except that its leading kind byte is statRelayMessage, and building it
\* leaves the request payload unchanged: its leading byte is still statMessage
C23_RelayPayloadIsCopy ==
    HandleStatCalled =>
        /\ valOut.payload = valIn.payload
        /\ \A r \in valOut.requests :
              /\ Len(r.payload) = Len(valIn.payload)
              /\ r.payload[1] = "statRelayMessage"
              /\ \A i \in 2..Len(r.payload) : r.payload[i] = valIn.payload[i]
              /\ valOut.payload[1] = "statMessage"

\* handleStat has sent the relay request and waits for its peers
C23_Witness ==
    /\ HandleStatCalled
    /\ valOut.pc = "waiting"
    /\ \E r \in valOut.requests : r.payload[1] = "statRelayMessage"
    /\ valOut.payload[1] = "statMessage"

\* C24: every reply of handleStat or handleStatRelay, success or error, carries as
\* its leading kind byte the kind byte of the request it answers: statMessage for
\* handleStat, statRelayMessage for handleStatRelay
C24_ReplyKeepsRequestKind ==
    Responded =>
        /\ valOut.reply[1] = valIn.payload[1]
        /\ valIn.handler = "handleStat" => valOut.reply[1] = "statMessage"
        /\ valIn.handler = "handleStatRelay" => valOut.reply[1] = "statRelayMessage"

\* handleStatRelay has answered a query with its partial
C24_Witness ==
    /\ Responded
    /\ valIn.handler = "handleStatRelay"
    /\ valOut.reply[2].resp.Err = NoErr
    /\ valOut.reply[1] = "statRelayMessage"

\* handleStat has answered after it sent the relay request and combined
C24_WitnessEntry ==
    /\ Responded
    /\ valPc = "collected"
    /\ valOut.requests # {}
    /\ valOut.reply[1] = "statMessage"

---------------------------------------------------------------------------
(***************************************************************************)
(* getLocalStatResp called once with a query of one filter and a registry  *)
(* read.  valIn is [req, reg], valOut what getLocalStatResp returns.       *)
(***************************************************************************)
\* a float64 NaN indicator value, which json.Marshal refuses
NaNValue == [t |-> "nan", h |-> 0]

\* what the registry may answer: RegReads, a failure of the value call or of the
\* description call alone, and a value that does not marshal
ResolveRegReads ==
    RegReads \cup
    { RegRead(TRUE, <<NameA>>, Null, TRUE, StrVal(1), FALSE),
      RegRead(TRUE, <<NameA>>, IntNum(2), FALSE, Null, TRUE),
      RegRead(TRUE, <<NameA>>, NaNValue, FALSE, StrVal(1), FALSE),
      RegRead(TRUE, <<>>, NaNValue, FALSE, Null, TRUE) }

ResolveInputs ==
    [req : {[EmptyReqStat(1) EXCEPT ![a.field] = a.f] : a \in SupportedFilters},
     reg : ResolveRegReads]

NoLocalStatResp == [resp |-> NilPtr, err |-> FALSE, errType |-> "NoneError", msg |-> ""]

InitResolve ==
    /\ members = [i \in 1..Len(NodeSeq) |-> Member(NodeSeq[i], "g1", "Read", "MemberAlive")]
    /\ apiPc = "idle"
    /\ apiGroup = ""
    /\ apiFilter = "none"
    /\ apiSelect = "none"
    /\ apiResult = NoResult
    /\ requests = {}
    /\ entryPc = "idle"
    /\ entryNode = ""
    /\ entryReq = <<>>
    /\ localResp = NoLocal
    /\ book = <<>>
    /\ handled = {}
    /\ deliveries = <<>>
    /\ validResps = <<>>
    /\ ret = NilPtr
    /\ reply = <<>>
    /\ responded = 0
    /\ aggPc = "off"
    /\ aggReq = EmptyReqStat(1)
    /\ aggIn = <<>>
    /\ aggOut = NilPtr
    /\ valPc = "ready"
    /\ valIn \in ResolveInputs
    /\ valOut = NoLocalStatResp

Resolve ==
    /\ valPc = "ready"
    /\ valOut' = getLocalStatResp(valIn.req, valIn.reg)
    /\ valPc' = "done"
    /\ UNCHANGED <<members, apiVars, requests, entryVars, aggVars, valIn>>

NextResolve == Resolve

SpecResolve == InitResolve /\ [][NextResolve]_vars

\* the one filter field set in the query
QueryField(req) == CHOOSE f \in FilterFieldSet : ~req[f].nil

\* the error kind named for a failed value call and a failed description call of the
\* query's scope
ValueErrOf(field) ==
    CASE field = "FilterPipelineIndicatorValue" -> "RetrievePipelineStatValueError"
      [] field = "FilterPluginIndicatorValue"   -> "RetrievePluginStatValueError"
      [] field = "FilterTaskIndicatorValue"     -> "RetrieveTaskStatValueError"
      [] OTHER -> "NoneError"

DescErrOf(field) ==
    CASE field = "FilterPipelineIndicatorDesc" -> "RetrievePipelineStatDescError"
      [] field = "FilterPluginIndicatorDesc"   -> "RetrievePluginStatDescError"
      [] field = "FilterTaskIndicatorDesc"     -> "RetrieveTaskStatDescError"
      [] OTHER -> "NoneError"

\* the error kind the registry read calls for: none when the pipeline is found and
\* the call the facet makes succeeds
RegistryErrOf(field, reg) ==
    IF ~reg.found THEN "PipelineStatNotFoundError"
    ELSE IF ValueErrOf(field) # "NoneError" /\ reg.valueErr THEN ValueErrOf(field)
    ELSE IF DescErrOf(field) # "NoneError" /\ reg.descErr THEN DescErrOf(field)
    ELSE "NoneError"

\* the value call succeeded with a value that json.Marshal refuses
MarshalFails(field, reg) ==
    /\ reg.found
    /\ ValueErrOf(field) # "NoneError"
    /\ ~reg.valueErr
    /\ reg.value = NaNValue

\* the response is a payload: a RespStat whose field of the query's facet holds bytes
\* and no other
IsPayloadFor(field, out) ==
    /\ ~out.err
    /\ out.errType = "NoneError"
    /\ ~out.resp.nil
    /\ SetFields(out.resp.v) = {FacetOf(field)}

\* the response is the error of the given kind and no payload
IsErrorOf(kind, out) ==
    /\ out.err
    /\ out.errType = kind
    /\ out.resp.nil

\* C27 as stated: for each of the nine query variants the resolver returns an error
\* and no payload exactly when the pipeline has no statistics (PipelineStatNotFound)
\* or the value or description call fails (the Retrieve...Error of the query's scope
\* and facet), and a payload and no error in every other case.
ClaimC27_ErrorsOnlyFromRegistry ==
    valPc = "done" =>
        LET field == QueryField(valIn.req)
            kind  == RegistryErrOf(field, valIn.reg)
        IN  IF kind # "NoneError" THEN IsErrorOf(kind, valOut)
            ELSE IsPayloadFor(field, valOut)

\* C27, amended: as stated, and when the value call succeeds with a value that does
\* not marshal the resolver returns InternalServerError and no payload; a payload and
\* no error in every other case.
C27_ResolverErrors ==
    valPc = "done" =>
        LET field == QueryField(valIn.req)
            kind  == RegistryErrOf(field, valIn.reg)
        IN  IF kind # "NoneError" THEN IsErrorOf(kind, valOut)
            ELSE IF MarshalFails(field, valIn.reg)
            THEN IsErrorOf("InternalServerError", valOut)
            ELSE IsPayloadFor(field, valOut)

\* a plugin-scope description query whose description call failed has been resolved
C27_Witness ==
    /\ valPc = "done"
    /\ QueryField(valIn.req) = "FilterPluginIndicatorDesc"
    /\ valIn.reg.found
    /\ valIn.reg.descErr
    /\ valOut.errType = "RetrievePluginStatDescError"

\* a value query whose value does not marshal has been resolved
C27_WitnessMarshal ==
    /\ valPc = "done"
    /\ MarshalFails(QueryField(valIn.req), valIn.reg)
    /\ valOut.err

====
